---- MODULE Spec2Model ----
(***************************************************************************)
(* A model of the bulk-import engine of the maintenance/inventory          *)
(* application: the persistence gateway of services/supabaseService.ts     *)
(* and the spreadsheet reconcilers of components/AssetManagement.tsx and   *)
(* components/HistoryTable.tsx.                                            *)
(*                                                                         *)
(* Strings that the code inspects character by character are sequences of  *)
(* one-character strings; names the code only compares are TLA+ strings.   *)
(***************************************************************************)
EXTENDS Integers, Sequences, FiniteSets, TLC

VARIABLES
    \* ---- services/supabaseService.ts: one call of an exported function
    op,             \* which exported function runs: "none", "bulk", "upsert", "delete"
    pc,             \* position of the async function
    frontendTable,  \* its first argument
    hasProgress,    \* whether the onProgress argument was supplied
    dataLen,        \* dataArray.length; the records are dataArray[1..dataLen]
    i,              \* loop variable of the batch loop (0-based offset)
    retryCount,
    batchSuccess,
    successCount,
    failedBatches,  \* sequence of [batchNum, error]
    result,         \* the value the function returned (NoResult before that)
    remoteLog,      \* history: the calls issued to the remote store and their answers
    progressLog,    \* history: the arguments of each onProgress call
    \* ---- the collections the two import components receive as props
    machines,
    breakdowns,
    bomRecords,
    history,
    items,
    \* ---- the import handlers of AssetManagement.tsx and HistoryTable.tsx
    passes,         \* the number of files imported so far
    lastImport,     \* history: the last import, its input and what it computed
    pending,        \* the callbacks of file readers and syncs that are still to run
    syncMsg,        \* the syncMsg of AssetManagement
    \* ---- the edits of issue records (HistoryTable.tsx) and items (MROManagement.tsx)
    editing,        \* editingId and editQty of HistoryTable, or NullObject
    editingItem,    \* the editingItem of MROManagement, or NullObject
    edits,          \* the number of edits begun so far
    \* ---- one call of a function that only computes a value
    args,           \* the arguments of the call
    returned,       \* what the functions called on them returned
    \* ---- the asset transfer tab (AssetTransferTab)
    transfers,        \* the transfers prop
    currentUser,      \* the currentUser prop
    showRejectModal,  \* the transfer the reject dialog was opened on, or Null
    rejectionReason,  \* the text typed into the reject dialog
    lastAction,       \* history: the last handler that ran and whether it updated
    \* ---- the tabs and the form of AssetManagement.tsx (useState, lines 59-86)
    activeTab,
    showForm,
    isEditing,
    formData,
    selectedIds,
    searchTerm,
    filterLocationId,
    filterStatus,
    filterMachineName,
    bomFilterMachine,
    bomFilterModel,
    expandedAssetId,
    syncConfig,       \* for each tabKey the sheetId of its entry
    timeZone,         \* the offset of the local time of the browser from UTC, in minutes
    forms,            \* the number of forms opened so far
    typed,            \* the number of values set in the controls of the form
    calls,            \* history: the props the last handler of the form called
    issuePrefill      \* what localStorage holds under wf_issue_prefill, parsed

gatewayVars == <<op, pc, frontendTable, hasProgress, dataLen, i, retryCount,
                 batchSuccess, successCount, failedBatches, result, remoteLog,
                 progressLog>>

importVars == <<machines, breakdowns, bomRecords, history, items, passes, lastImport,
               pending, syncMsg, editing, editingItem, edits>>

callVars == <<args, returned>>

transferVars == <<transfers, currentUser, showRejectModal, rejectionReason, lastAction>>

filterVars == <<searchTerm, filterStatus, filterMachineName, bomFilterMachine,
                bomFilterModel, expandedAssetId, syncConfig>>

formVars == <<activeTab, showForm, isEditing, formData, selectedIds, filterLocationId,
              filterVars, timeZone, forms, typed, calls, issuePrefill>>

vars == <<gatewayVars, importVars, callVars, transferVars, formVars>>

-----------------------------------------------------------------------------
(* Bounds of the model *)

\* the largest dataArray handed to bulkUpsertSupabaseRecords
MaxRecords == 250
\* the number of files imported in one run
MaxPasses == 2

\* the largest number of edits of issue records and items begun in a run
MaxEdits == 2
\* the number of rows of the grids handed to a header detector
MaxGridRows == 3
\* the number of answers of the store to an upsert that carry neither rows nor
\* an error, in one run
MaxSilent == 2

-----------------------------------------------------------------------------
(* services/supabaseService.ts *)

tableMap ==
    [ items |-> "items", machines |-> "machines", locations |-> "locations",
      sectors |-> "sectors", divisions |-> "divisions", plans |-> "maintenance_plans",
      users |-> "users", history |-> "issues", breakdowns |-> "breakdowns",
      bomRecords |-> "bom", agriOrders |-> "agri_orders",
      irrigationLogs |-> "irrigation_logs", forecastPeriods |-> "forecast_periods",
      forecastRecords |-> "forecast_records", tasks |-> "maintenance_tasks",
      schedules |-> "maintenance_schedules", workOrders |-> "maintenance_work_orders",
      assetTransfers |-> "asset_transfers", transferHistory |-> "machine_transfer_history",
      warrantyRecords |-> "warranty_management",
      warrantyReceivings |-> "warranty_receiving_data", orgStructures |-> "org_structure",
      failureTypes |-> "failure_types", issuePlanPeriods |-> "issue_plan_periods",
      issuePlanEntries |-> "issue_plan_entries" ]

\* tableMap is an object literal: a name that is no key of it but names a property
\* objects inherit from Object.prototype yields that property, a function, or for
\* __proto__ the prototype object; each is given by its String(value)
ObjectPrototype ==
    ("constructor" :> "function Object() { [native code] }")
    @@ ("toString" :> "function toString() { [native code] }")
    @@ ("toLocaleString" :> "function toLocaleString() { [native code] }")
    @@ ("valueOf" :> "function valueOf() { [native code] }")
    @@ ("hasOwnProperty" :> "function hasOwnProperty() { [native code] }")
    @@ ("isPrototypeOf" :> "function isPrototypeOf() { [native code] }")
    @@ ("propertyIsEnumerable" :> "function propertyIsEnumerable() { [native code] }")
    @@ ("__defineGetter__" :> "function __defineGetter__() { [native code] }")
    @@ ("__defineSetter__" :> "function __defineSetter__() { [native code] }")
    @@ ("__lookupGetter__" :> "function __lookupGetter__() { [native code] }")
    @@ ("__lookupSetter__" :> "function __lookupSetter__() { [native code] }")
    @@ ("__proto__" :> "[object Object]")

\* tableMap[frontendTable]; "" stands for undefined
SupabaseTable(t) ==
    IF t \in DOMAIN tableMap THEN tableMap[t]
    ELSE IF t \in DOMAIN ObjectPrototype THEN ObjectPrototype[t]
    ELSE ""

\* (frontendTable === 'users') ? 'username' : 'id'
PrimaryKey(t) == IF t = "users" THEN "username" ELSE "id"

BATCH_SIZE == 100
MAX_RETRIES == 3

Min(a, b) == IF a < b THEN a ELSE b

\* Math.ceil(dataArray.length / BATCH_SIZE)
TotalBatches(len) ==
    IF len % BATCH_SIZE = 0 THEN len \div BATCH_SIZE ELSE (len \div BATCH_SIZE) + 1

\* Math.floor(i / BATCH_SIZE) + 1
BatchNum(off) == (off \div BATCH_SIZE) + 1

\* dataArray.slice(i, i + BATCH_SIZE): the records off+1 .. ChunkEnd(off, len)
ChunkEndMut(off, len) == Min(off + BATCH_SIZE + 1, len)
ChunkEnd(off, len) == Min(off + BATCH_SIZE, len)
ChunkLen(off, len) == ChunkEnd(off, len) - off

\* while (retryCount < MAX_RETRIES && !batchSuccess)
RetryAgainMut(rc, ok) == rc <= MAX_RETRIES /\ ~ok
RetryAgain(rc, ok) == rc < MAX_RETRIES /\ ~ok

\* the step of the for loop: i += BATCH_SIZE
NextOffsetMut(off, failed, len) == IF failed THEN len ELSE off + BATCH_SIZE
NextOffset(off, failed, len) == off + BATCH_SIZE

\* the value returned after the loop
Outcome(count, len, failed) ==
    IF Len(failed) > 0
    THEN [ status |-> "partial", count |-> count,
           message |-> <<count, "/", len, " uploaded. ", Len(failed), " batches failed.">> ]
    ELSE [ status |-> "success", count |-> count ]

UnknownTable == [ status |-> "error", message |-> "Unknown table" ]
\* the value the catch of lines 257-260 returns
Caught(msg, count) == [ status |-> "error", message |-> msg, count |-> count ]
NoResult == [ status |-> "none" ]

\* inputs: the lengths of dataArray, at and around the multiples of BATCH_SIZE
RecordCounts ==
    { len \in 0..MaxRecords :
        \/ (len % BATCH_SIZE) \in {0, 1, BATCH_SIZE \div 2, BATCH_SIZE - 1}
        \/ len = MaxRecords }
\* inputs: the table names a caller passes, three of them without an entry in
\* tableMap
FrontendTables == {"machines", "users", "widgets", "warranty_records", "constructor"}
\* inputs: the messages of the errors the remote store answers with
ErrorMessages == {"timeout", "duplicate key"}
\* inputs: the messages of the errors a progress callback throws
CallbackMessages == {"render failed"}

Progress(cur, total, b, tb) == <<cur, total, b, tb>>
WithProgress(log, entry) == IF hasProgress THEN Append(log, entry) ELSE log

\* the answer of the last call replaces its "pending"
Answered(log, answer) == [log EXCEPT ![Len(log)].answer = answer]

GatewayInit ==
    /\ op = "none"
    /\ pc = "idle"
    /\ frontendTable = ""
    /\ hasProgress = FALSE
    /\ dataLen = 0
    /\ i = 0
    /\ retryCount = 0
    /\ batchSuccess = FALSE
    /\ successCount = 0
    /\ failedBatches = <<>>
    /\ result = NoResult
    /\ remoteLog = <<>>
    /\ progressLog = <<>>

\* bulkUpsertSupabaseRecords, lines 168-184: the checks before the loop
BulkStart(t, len, cb) ==
    /\ pc = "idle"
    /\ op' = "bulk"
    /\ frontendTable' = t
    /\ hasProgress' = cb
    /\ dataLen' = len
    /\ IF SupabaseTable(t) = ""
       THEN pc' = "done" /\ result' = UnknownTable
       ELSE IF len = 0
            THEN pc' = "done" /\ result' = [ status |-> "success", count |-> 0 ]
            ELSE pc' = "for" /\ result' = result
    /\ UNCHANGED <<importVars, callVars, transferVars, formVars>>
    /\ UNCHANGED <<i, retryCount, batchSuccess, successCount, failedBatches,
                   remoteLog, progressLog>>

\* lines 186-200: the head of one iteration of the batch loop; the progress
\* callback, when there is one, returns
BatchBegin ==
    /\ pc = "for"
    /\ i < dataLen
    /\ progressLog' = WithProgress(progressLog,
            Progress(successCount, dataLen, BatchNum(i), TotalBatches(dataLen)))
    /\ retryCount' = 0
    /\ batchSuccess' = FALSE
    /\ pc' = "while"
    /\ UNCHANGED <<importVars, callVars, transferVars, formVars>>
    /\ UNCHANGED <<op, frontendTable, hasProgress, dataLen, i, successCount,
                   failedBatches, result, remoteLog>>

\* lines 202-207: the upsert of the current chunk is issued and awaited
UpsertCall ==
    /\ pc = "while"
    /\ RetryAgain(retryCount, batchSuccess)
    /\ remoteLog' = Append(remoteLog,
            [ kind |-> "upsert", table |-> SupabaseTable(frontendTable),
              onConflict |-> PrimaryKey(frontendTable), batchNum |-> BatchNum(i),
              first |-> i + 1, last |-> ChunkEnd(i, dataLen), answer |-> "pending" ])
    /\ pc' = "awaitUpsert"
    /\ UNCHANGED <<importVars, callVars, transferVars, formVars>>
    /\ UNCHANGED <<op, frontendTable, hasProgress, dataLen, i, retryCount,
                   batchSuccess, successCount, failedBatches, result, progressLog>>

\* lines 213-221: the store answers with the upserted rows of the chunk; the
\* progress callback returns
UpsertRows ==
    /\ pc = "awaitUpsert"
    /\ remoteLog' = Answered(remoteLog, "rows")
    /\ successCount' = successCount + ChunkLen(i, dataLen)
    /\ batchSuccess' = TRUE
    /\ progressLog' = WithProgress(progressLog,
            Progress(successCount', dataLen, BatchNum(i), TotalBatches(dataLen)))
    /\ pc' = "while"
    /\ UNCHANGED <<importVars, callVars, transferVars, formVars>>
    /\ UNCHANGED <<op, frontendTable, hasProgress, dataLen, i, retryCount,
                   failedBatches, result>>

\* lines 209-211, 222-231: the store answers with an error (or the call throws)
UpsertError(msg) ==
    /\ pc = "awaitUpsert"
    /\ remoteLog' = Answered(remoteLog, msg)
    /\ retryCount' = retryCount + 1
    /\ IF retryCount' < MAX_RETRIES
       THEN pc' = "backoff" /\ failedBatches' = failedBatches
       ELSE /\ pc' = "while"
            /\ failedBatches' =
                   Append(failedBatches, [ batchNum |-> BatchNum(i), error |-> msg ])
    /\ UNCHANGED <<importVars, callVars, transferVars, formVars>>
    /\ UNCHANGED <<op, frontendTable, hasProgress, dataLen, i, batchSuccess,
                   successCount, result, progressLog>>

\* line 226: the linear backoff timer fires
BackoffDone ==
    /\ pc = "backoff"
    /\ pc' = "while"
    /\ UNCHANGED <<importVars, callVars, transferVars, formVars>>
    /\ UNCHANGED <<op, frontendTable, hasProgress, dataLen, i, retryCount,
                   batchSuccess, successCount, failedBatches, result, remoteLog,
                   progressLog>>

\* lines 232-236: the retry loop is left; a delay follows unless this was the last chunk
BatchEnd ==
    /\ pc = "while"
    /\ ~RetryAgain(retryCount, batchSuccess)
    /\ IF i + BATCH_SIZE < dataLen
       THEN pc' = "delay" /\ i' = i
       ELSE pc' = "for" /\ i' = NextOffset(i, ~batchSuccess, dataLen)
    /\ UNCHANGED <<importVars, callVars, transferVars, formVars>>
    /\ UNCHANGED <<op, frontendTable, hasProgress, dataLen, retryCount,
                   batchSuccess, successCount, failedBatches, result, remoteLog,
                   progressLog>>

\* line 235: the 200 ms timer between two batches fires
DelayDone ==
    /\ pc = "delay"
    /\ pc' = "for"
    /\ i' = NextOffset(i, ~batchSuccess, dataLen)
    /\ UNCHANGED <<importVars, callVars, transferVars, formVars>>
    /\ UNCHANGED <<op, frontendTable, hasProgress, dataLen, retryCount,
                   batchSuccess, successCount, failedBatches, result, remoteLog,
                   progressLog>>

\* lines 239-255: after the loop; the progress callback returns
BulkFinish ==
    /\ pc = "for"
    /\ i >= dataLen
    /\ progressLog' = WithProgress(progressLog,
            Progress(successCount, dataLen, TotalBatches(dataLen), TotalBatches(dataLen)))
    /\ result' = Outcome(successCount, dataLen, failedBatches)
    /\ pc' = "done"
    /\ UNCHANGED <<importVars, callVars, transferVars, formVars>>
    /\ UNCHANGED <<op, frontendTable, hasProgress, dataLen, i, retryCount,
                   batchSuccess, successCount, failedBatches, remoteLog>>

\* upsertSupabaseRecord, lines 114-129, and deleteSupabaseRecord, lines 142-153:
\* the table check, then the single call
SingleStart(which, t) ==
    /\ pc = "idle"
    /\ op' = which
    /\ frontendTable' = t
    /\ IF SupabaseTable(t) = ""
       THEN pc' = "done" /\ result' = UnknownTable /\ remoteLog' = remoteLog
       ELSE /\ pc' = "awaitSingle"
            /\ result' = result
            /\ remoteLog' = Append(remoteLog,
                   [ kind |-> which, table |-> SupabaseTable(t),
                     onConflict |-> PrimaryKey(t), answer |-> "pending" ])
    /\ UNCHANGED <<importVars, callVars, transferVars, formVars>>
    /\ UNCHANGED <<hasProgress, dataLen, i, retryCount, batchSuccess, successCount,
                   failedBatches, progressLog>>

\* lines 131-134 and 155-156: no error
SingleOk ==
    /\ pc = "awaitSingle"
    /\ remoteLog' = Answered(remoteLog, "rows")
    /\ result' = [ status |-> "success" ]
    /\ pc' = "done"
    /\ UNCHANGED <<importVars, callVars, transferVars, formVars>>
    /\ UNCHANGED <<op, frontendTable, hasProgress, dataLen, i, retryCount,
                   batchSuccess, successCount, failedBatches, progressLog>>

\* lines 135-138 and 157-160: the error is caught and returned
SingleError(msg) ==
    /\ pc = "awaitSingle"
    /\ remoteLog' = Answered(remoteLog, msg)
    /\ result' = [ status |-> "error", message |-> msg ]
    /\ pc' = "done"
    /\ UNCHANGED <<importVars, callVars, transferVars, formVars>>
    /\ UNCHANGED <<op, frontendTable, hasProgress, dataLen, i, retryCount,
                   batchSuccess, successCount, failedBatches, progressLog>>

GatewayNext ==
    \/ \E t \in FrontendTables, len \in RecordCounts, cb \in BOOLEAN : BulkStart(t, len, cb)
    \/ BatchBegin
    \/ UpsertCall
    \/ UpsertRows
    \/ \E msg \in ErrorMessages : UpsertError(msg)
    \/ BackoffDone
    \/ BatchEnd
    \/ DelayDone
    \/ BulkFinish
    \/ \E which \in {"upsert", "delete"}, t \in FrontendTables : SingleStart(which, t)
    \/ SingleOk
    \/ \E msg \in ErrorMessages : SingleError(msg)

\* In the actions above a progress callback returns; in the three below it
\* throws.

\* lines 193-195 and 257-260: the callback throws at the head of a batch, outside
\* the try of the retry loop; the catch of the function returns the error with
\* the count so far
BatchBeginThrows(msg) ==
    /\ pc = "for"
    /\ i < dataLen
    /\ hasProgress
    /\ progressLog' = Append(progressLog,
            Progress(successCount, dataLen, BatchNum(i), TotalBatches(dataLen)))
    /\ result' = Caught(msg, successCount)
    /\ pc' = "done"
    /\ UNCHANGED <<importVars, callVars, transferVars, formVars>>
    /\ UNCHANGED <<op, frontendTable, hasProgress, dataLen, i, retryCount,
                   batchSuccess, successCount, failedBatches, remoteLog>>

\* lines 213-231: the store answers with the rows of the chunk and the callback
\* throws inside the try of the retry loop, after the count and batchSuccess
\* are set; the catch of the loop counts a retry, or records the batch as failed
UpsertRowsThrows(msg) ==
    /\ pc = "awaitUpsert"
    /\ hasProgress
    /\ remoteLog' = Answered(remoteLog, "rows")
    /\ successCount' = successCount + ChunkLen(i, dataLen)
    /\ batchSuccess' = TRUE
    /\ progressLog' = Append(progressLog,
            Progress(successCount', dataLen, BatchNum(i), TotalBatches(dataLen)))
    /\ retryCount' = retryCount + 1
    /\ IF retryCount' < MAX_RETRIES
       THEN pc' = "backoff" /\ failedBatches' = failedBatches
       ELSE /\ pc' = "while"
            /\ failedBatches' =
                   Append(failedBatches, [ batchNum |-> BatchNum(i), error |-> msg ])
    /\ UNCHANGED <<importVars, callVars, transferVars, formVars>>
    /\ UNCHANGED <<op, frontendTable, hasProgress, dataLen, i, result>>

\* lines 242-244 and 257-260: the callback throws after the loop; the catch of
\* the function returns the error in place of the outcome
BulkFinishThrows(msg) ==
    /\ pc = "for"
    /\ i >= dataLen
    /\ hasProgress
    /\ progressLog' = Append(progressLog,
            Progress(successCount, dataLen, TotalBatches(dataLen), TotalBatches(dataLen)))
    /\ result' = Caught(msg, successCount)
    /\ pc' = "done"
    /\ UNCHANGED <<importVars, callVars, transferVars, formVars>>
    /\ UNCHANGED <<op, frontendTable, hasProgress, dataLen, i, retryCount,
                   batchSuccess, successCount, failedBatches, remoteLog>>

\* bulk uploads of one, two and three batches with a progress callback that
\* returns or throws
CallbackNext ==
    \/ \E t \in {"machines", "widgets"}, len \in {1, BATCH_SIZE + 1, MaxRecords},
          cb \in BOOLEAN : BulkStart(t, len, cb)
    \/ BatchBegin
    \/ \E msg \in CallbackMessages : BatchBeginThrows(msg)
    \/ UpsertCall
    \/ UpsertRows
    \/ \E msg \in CallbackMessages : UpsertRowsThrows(msg)
    \/ \E msg \in ErrorMessages : UpsertError(msg)
    \/ BackoffDone
    \/ BatchEnd
    \/ DelayDone
    \/ BulkFinish
    \/ \E msg \in CallbackMessages : BulkFinishThrows(msg)

\* the calls the store answered with neither rows nor an error
SilentAnswers == { j \in 1..Len(remoteLog) : remoteLog[j].answer = "nothing" }

\* lines 204-221: the store answers with data = null and error = null; line 209
\* does not throw and line 213 skips the success branch, so the loop condition
\* is evaluated again with retryCount and batchSuccess as they were
UpsertNothing ==
    /\ pc = "awaitUpsert"
    /\ Cardinality(SilentAnswers) < MaxSilent
    /\ remoteLog' = Answered(remoteLog, "nothing")
    /\ pc' = "while"
    /\ UNCHANGED <<importVars, callVars, transferVars, formVars>>
    /\ UNCHANGED <<op, frontendTable, hasProgress, dataLen, i, retryCount,
                   batchSuccess, successCount, failedBatches, result, progressLog>>

\* bulk uploads of one batch and of two batches to a store that answers an
\* upsert with rows, with an error or with neither
SilentNext ==
    \/ \E len \in {1, BATCH_SIZE + 1}, cb \in BOOLEAN : BulkStart("machines", len, cb)
    \/ BatchBegin
    \/ UpsertCall
    \/ UpsertRows
    \/ \E msg \in ErrorMessages : UpsertError(msg)
    \/ UpsertNothing
    \/ BackoffDone
    \/ BatchEnd
    \/ DelayDone
    \/ BulkFinish
-----------------------------------------------------------------------------
(* JavaScript values of the import code.  A string is a sequence of          *)
(* one-character strings; undefined and null are the two one-element         *)
(* sequences below, which are no string; a number is an integer, or NaN.     *)

Undefined == <<"(undefined)">>
Null == <<"(null)">>
\* the result of Number(v) for a v that is no numeral; numerals are unsigned
NaN == -1

\* String(v)
JsString(v) ==
    IF v = Undefined THEN <<"u","n","d","e","f","i","n","e","d">> ELSE IF v = Null THEN <<"n","u","l","l">> ELSE v

\* the truth value of a string, undefined or null, as in !v and v || w
Truthy(v) == v \notin {<<>>, Undefined, Null}
\* the truth value of a number
TruthyNum(x) == x \notin {0, NaN}
\* v || w
OrElse(v, w) == IF Truthy(v) THEN v ELSE w

\* the lower-case letter of each upper-case letter
LowerOf ==
    [ A |-> "a", B |-> "b", C |-> "c", D |-> "d", E |-> "e", F |-> "f", G |-> "g",
      H |-> "h", I |-> "i", J |-> "j", K |-> "k", L |-> "l", M |-> "m", N |-> "n",
      O |-> "o", P |-> "p", Q |-> "q", R |-> "r", S |-> "s", T |-> "t", U |-> "u",
      V |-> "v", W |-> "w", X |-> "x", Y |-> "y", Z |-> "z" ]
Digits == <<"0","1","2","3","4","5","6","7","8","9">>
DigitChars == {"0","1","2","3","4","5","6","7","8","9"}
WhiteSpace == {" ", "\t", "\n", "\r"}

LowerChar(c) == IF c \in DOMAIN LowerOf THEN LowerOf[c] ELSE c

\* s.toLowerCase()
ToLowerCase(s) == [k \in 1..Len(s) |-> LowerChar(s[k])]

\* s.trim()
Trim(s) ==
    IF \A k \in 1..Len(s) : s[k] \in WhiteSpace THEN <<>>
    ELSE SubSeq(s,
                CHOOSE k \in 1..Len(s) :
                    s[k] \notin WhiteSpace /\ \A m \in 1..(k - 1) : s[m] \in WhiteSpace,
                CHOOSE k \in 1..Len(s) :
                    s[k] \notin WhiteSpace /\ \A m \in (k + 1)..Len(s) : s[m] \in WhiteSpace)

\* s.replace(/[...]/g, '') for a class of single characters
Without(s, class) == SelectSeq(s, LAMBDA c : c \notin class)

\* s.includes(part)
Includes(s, part) ==
    \E k \in 0..(Len(s) - Len(part)) : \A m \in 1..Len(part) : s[k + m] = part[m]

IsDigit(c) == c \in DigitChars
\* /^\d+$/.test(s)
AllDigits(s) == Len(s) > 0 /\ \A k \in 1..Len(s) : IsDigit(s[k])
\* s.replace(/\D/g, '')
DigitsOnly(s) == SelectSeq(s, IsDigit)

RECURSIVE DecimalValue(_)
DecimalValue(s) ==
    IF s = <<>> THEN 0
    ELSE 10 * DecimalValue(SubSeq(s, 1, Len(s) - 1))
         + ((CHOOSE k \in 1..Len(Digits) : Digits[k] = s[Len(s)]) - 1)

\* Number(v) for v undefined, or a string that is blank, an unsigned decimal
\* numeral or text without a numeric reading
Number(v) ==
    IF v = Undefined THEN NaN
    ELSE IF v = Null \/ Trim(v) = <<>> THEN 0
    ELSE IF AllDigits(Trim(v)) THEN DecimalValue(Trim(v))
    ELSE NaN

\* const x = value; followed by the code Body(x) that uses x
Bind(value, Body(_)) == CHOOSE r \in { Body(x) : x \in {value} } : TRUE

\* objects: functions from field names to values; {} is the empty function
EmptyObject == <<>>
Has(o, k) == k \in DOMAIN o
\* o.k (undefined when the key is missing)
Get(o, k) == IF k \in DOMAIN o THEN o[k] ELSE Undefined
\* o.k = v
Put(o, k, v) == [x \in (DOMAIN o) \cup {k} |-> IF x = k THEN v ELSE o[x]]
\* { ...a, ...b }
Spread(a, b) ==
    [x \in (DOMAIN a) \cup (DOMAIN b) |-> IF x \in DOMAIN b THEN b[x] ELSE a[x]]

\* list.find(test): the position of the first element that passes, 0 for none
FindIndex(list, Test(_)) ==
    LET hits == { k \in 1..Len(list) : Test(list[k]) } IN
    IF hits = {} THEN 0 ELSE CHOOSE k \in hits : \A m \in hits : k <= m

\* the header.replace(/[\s-_.]/g, '') of both importers
HeaderNoise == WhiteSpace \cup {"-", "_", "."}
CleanHeader(h) == Without(h, HeaderNoise)

-----------------------------------------------------------------------------
(* components/AssetManagement.tsx: processImport *)

\* row[i] of a row that may be shorter than the header row
Cell(row, k) == IF k <= Len(row) THEN row[k] ELSE Undefined

\* rows[r].map(cell => String(cell).toLowerCase().trim())
LowerTrimmedRow(row) == [k \in 1..Len(row) |-> Trim(ToLowerCase(JsString(row[k])))]

\* the number of cells of a row that contain one of the keywords
KeywordHits(row, keywords) ==
    Cardinality({ k \in 1..Len(row) :
                    \E key \in keywords :
                        Includes(Trim(ToLowerCase(JsString(row[k]))), key) })

\* lines 161-169 (and HistoryTable 177-185): the first row among the first 10 with
\* at least two keyword cells, as a 0-based index; 0 when there is none
HeaderRowIndex(rows, keywords) ==
    LET window == { r \in 0..(Min(Len(rows), 10) - 1) :
                      KeywordHits(rows[r + 1], keywords) >= 2 } IN
    IF window = {} THEN 0 ELSE CHOOSE r \in window : \A q \in window : r <= q

AssetHeaderKeywords ==
    { <<"i","d">>, <<"n","a","m","e">>, <<"q","t","y">>, <<"m","a","c","h","i","n","e">>, <<"i","t","e","m">>, <<"p","a","r","t">>, <<"s","e","r","i","a","l">>, <<"b","r","a","n","d">>,
      <<"m","o","d","e","l">> }

\* lines 179-188
resolveId(val, list) ==
    IF ~Truthy(val) THEN Null
    ELSE LET trimmed == Trim(JsString(val))
             byId == FindIndex(list, LAMBDA e : e.id = trimmed)
             byName == FindIndex(list,
                 LAMBDA e : ToLowerCase(OrElse(Get(e, "name"), <<>>)) = ToLowerCase(trimmed))
         IN IF trimmed = <<>> THEN Null
            ELSE IF byId # 0 THEN list[byId].id
            ELSE IF byName # 0 THEN list[byName].id
            ELSE Null

\* the characters of the class /['"...]/ of line 192 that the inputs can hold
QuoteChars == {"'", "\""}

\* lines 190-224
resolveItemIdMut(val, itemList) ==
    IF ~Truthy(val) THEN Null
    ELSE LET trimmed == Without(ToLowerCase(Trim(JsString(val))), QuoteChars)
             Lower(e, k) == ToLowerCase(JsString(OrElse(Get(e, k), <<>>)))
             byId == FindIndex(itemList, LAMBDA e : ToLowerCase(JsString(e.id)) = trimmed)
             byPart == FindIndex(itemList, LAMBDA e : Lower(e, "partNumber") = trimmed)
             byOtherId == FindIndex(itemList,
                 LAMBDA e : Lower(e, "secondId") = trimmed \/ Lower(e, "thirdId") = trimmed)
             byName == FindIndex(itemList,
                 LAMBDA e : Lower(e, "name") = trimmed \/ Lower(e, "fullName") = trimmed)
             numericMatch == FindIndex(itemList,
                 LAMBDA e : \/ DigitsOnly(JsString(e.id)) = trimmed
                            \/ DigitsOnly(JsString(OrElse(Get(e, "partNumber"), <<>>)))
                                 = trimmed)
         IN IF trimmed = <<>> THEN Null
            ELSE IF byPart # 0 THEN itemList[byPart].id
            ELSE IF byId # 0 THEN itemList[byId].id
            ELSE IF byOtherId # 0 THEN itemList[byOtherId].id
            ELSE IF byName # 0 THEN itemList[byName].id
            ELSE IF AllDigits(trimmed) /\ numericMatch # 0 THEN itemList[numericMatch].id
            ELSE Null
resolveItemId(val, itemList) ==
    IF ~Truthy(val) THEN Null
    ELSE LET trimmed == Without(ToLowerCase(Trim(JsString(val))), QuoteChars)
             Lower(e, k) == ToLowerCase(JsString(OrElse(Get(e, k), <<>>)))
             byId == FindIndex(itemList, LAMBDA e : ToLowerCase(JsString(e.id)) = trimmed)
             byPart == FindIndex(itemList, LAMBDA e : Lower(e, "partNumber") = trimmed)
             byOtherId == FindIndex(itemList,
                 LAMBDA e : Lower(e, "secondId") = trimmed \/ Lower(e, "thirdId") = trimmed)
             byName == FindIndex(itemList,
                 LAMBDA e : Lower(e, "name") = trimmed \/ Lower(e, "fullName") = trimmed)
             numericMatch == FindIndex(itemList,
                 LAMBDA e : \/ DigitsOnly(JsString(e.id)) = trimmed
                            \/ DigitsOnly(JsString(OrElse(Get(e, "partNumber"), <<>>)))
                                 = trimmed)
         IN IF trimmed = <<>> THEN Null
            ELSE IF byId # 0 THEN itemList[byId].id
            ELSE IF byPart # 0 THEN itemList[byPart].id
            ELSE IF byOtherId # 0 THEN itemList[byOtherId].id
            ELSE IF byName # 0 THEN itemList[byName].id
            ELSE IF AllDigits(trimmed) /\ numericMatch # 0 THEN itemList[numericMatch].id
            ELSE Null

\* the header names of lines 232-272
IdHeaders == { <<"i","d">>, <<"m","a","c","h","i","n","e","i","d">>, <<"a","s","s","e","t","i","d">>, <<"e","n","t","r","y","i","d">> }
NameParts == { <<"n","a","m","e">>, <<"d","e","s","c","r","i","p","t","i","o","n">>, <<"c","a","t","e","g","o","r","y">> }
NameHeaders == { <<"e","q","u","i","p","m","e","n","t">>, <<"m","a","c","h","i","n","e","n","a","m","e">> }
BrandHeaders == { <<"b","r","a","n","d">>, <<"m","a","k","e">>, <<"m","a","n","u","f","a","c","t","u","r","e","r">> }
ModelHeaders == { <<"m","o","d","e","l">>, <<"m","o","d","e","l","n","o">>, <<"m","o","d","e","l","n","u","m","b","e","r">>, <<"t","y","p","e">> }
ChassisHeaders ==
    { <<"c","h","a","s","e">>, <<"c","h","a","s","s","i","s">>, <<"c","h","a","s","e","n","o">>, <<"c","h","a","s","s","i","s","n","o">>, <<"s","e","r","i","a","l">>, <<"s","e","r","i","a","l","n","o">>, <<"s","n">> }
GroupHeaders == { <<"m","a","i","n","g","r","o","u","p">>, <<"g","r","o","u","p">> }
LocalNoHeaders == { <<"l","o","c","a","l","n","o">>, <<"m","a","c","h","i","n","e","l","o","c","a","l","n","o">>, <<"a","s","s","e","t","n","o">> }
BomMachineHeaders == { <<"m","a","c","h","i","n","e","n","a","m","e">>, <<"e","q","u","i","p","n","a","m","e">>, <<"m","a","c","h","i","n","e">> }
BomBrandHeaders == { <<"b","r","a","n","d">>, <<"m","a","k","e">> }
BomModelHeaders == { <<"m","o","d","e","l","n","o">>, <<"m","o","d","e","l","n","u","m","b","e","r">>, <<"m","o","d","e","l">> }
BomItemHeaders == { <<"i","t","e","m","i","d">>, <<"i","t","e","m","c","o","d","e">>, <<"p","a","r","t","n","u","m","b","e","r">>, <<"c","o","d","e">>, <<"i","t","e","m">> }
QuantityHeaders == { <<"q","u","a","n","t","i","t","y">>, <<"q","t","y">>, <<"c","o","u","n","t">> }

\* lines 232-252: the first chain of the header loop, for one cell
MapAssetCell(obj, tab, header, cell, db) ==
    LET text == Trim(JsString(cell)) IN
    IF header \in IdHeaders /\ ~Truthy(Get(obj, "id"))
    THEN Put(obj, "id", IF text = <<>> THEN Undefined ELSE text)
    ELSE IF (\E part \in NameParts : Includes(header, part)) \/ header \in NameHeaders
    THEN IF tab = "machines" THEN Put(obj, "category", text)
         ELSE IF tab = "breakdowns" THEN Put(obj, "machineName", text)
         ELSE obj
    ELSE IF header = <<"s","t","a","t","u","s">> THEN Put(obj, "status", text)
    ELSE IF header \in BrandHeaders THEN Put(obj, "brand", text)
    ELSE IF header \in ModelHeaders THEN Put(obj, "modelNo", text)
    ELSE IF header \in ChassisHeaders THEN Put(obj, "chassisNo", text)
    ELSE IF Includes(header, <<"d","i","v","i","s","i","o","n">>)
    THEN Put(obj, "divisionId", resolveId(JsString(cell), db.divisions))
    ELSE IF Includes(header, <<"s","e","c","t","o","r">>)
    THEN Put(obj, "sectorId", resolveId(JsString(cell), db.sectors))
    ELSE IF Includes(header, <<"l","o","c","a","t","i","o","n">>)
    THEN Put(obj, "locationId", resolveId(JsString(cell), db.locations))
    ELSE IF header \in GroupHeaders THEN Put(obj, "mainGroup", text)
    ELSE IF header = <<"s","u","b","g","r","o","u","p">> THEN Put(obj, "subGroup", text)
    ELSE IF header \in LocalNoHeaders THEN Put(obj, "machineLocalNo", text)
    ELSE obj

\* the chain of the bom tab with a list of failed matches that is not deduplicated
BomChainMut(st, header, cell, db) ==
    LET text == Trim(JsString(cell)) IN
    IF header \in BomMachineHeaders
    THEN [st EXCEPT !.obj = Put(@, "machineCategory", text)]
    ELSE IF header \in BomBrandHeaders
    THEN [st EXCEPT !.obj = Put(@, "brand", text)]
    ELSE IF header \in BomModelHeaders
    THEN [st EXCEPT !.obj = Put(@, "modelNo", text)]
    ELSE IF header \in BomItemHeaders
    THEN Bind(resolveItemId(text, db.items), LAMBDA found :
             [ obj |-> Put(st.obj, "itemId", found),
               failed |->
                   IF ~Truthy(found) /\ Truthy(text)
                   THEN Append(st.failed, text)
                   ELSE st.failed ])
    ELSE IF header \in QuantityHeaders
    THEN [st EXCEPT !.obj =
             Put(@, "quantity", IF TruthyNum(Number(cell)) THEN Number(cell) ELSE 0)]
    ELSE st

\* lines 254-268: the else-if chain of the bom tab, for one cell; st = [obj, failed]
BomChain(st, header, cell, db) ==
    LET text == Trim(JsString(cell)) IN
    IF header \in BomMachineHeaders
    THEN [st EXCEPT !.obj = Put(@, "machineCategory", text)]
    ELSE IF header \in BomBrandHeaders
    THEN [st EXCEPT !.obj = Put(@, "brand", text)]
    ELSE IF header \in BomModelHeaders
    THEN [st EXCEPT !.obj = Put(@, "modelNo", text)]
    ELSE IF header \in BomItemHeaders
    THEN Bind(resolveItemId(text, db.items), LAMBDA found :
             [ obj |-> Put(st.obj, "itemId", found),
               failed |->
                   IF ~Truthy(found) /\ Truthy(text)
                      /\ ~\E k \in 1..Len(st.failed) : st.failed[k] = text
                   THEN Append(st.failed, text)
                   ELSE st.failed ])
    ELSE IF header \in QuantityHeaders
    THEN [st EXCEPT !.obj =
             Put(@, "quantity", IF TruthyNum(Number(cell)) THEN Number(cell) ELSE 0)]
    ELSE st

\* lines 270-271: the two fallbacks of the bom tab
BomFallback(st, header, cell, part, field) ==
    IF Includes(header, part) /\ ~Truthy(Get(st.obj, field))
    THEN [st EXCEPT !.obj = Put(@, field, Trim(JsString(cell)))]
    ELSE st

\* lines 254-272: the code of the bom tab for one cell
MapBomCell(st, header, cell, db) ==
    Bind(BomChain(st, header, cell, db), LAMBDA first :
    Bind(BomFallback(first, header, cell, <<"m","a","c","h","i","n","e">>, "machineCategory"), LAMBDA second :
         BomFallback(second, header, cell, <<"m","o","d","e","l">>, "modelNo")))

RECURSIVE MapAssetRow(_, _, _, _, _, _)
\* lines 229-273: headers.forEach, from header k on
MapAssetRow(st, tab, headers, row, k, db) ==
    IF k > Len(headers) THEN st
    ELSE Bind(CleanHeader(headers[k]), LAMBDA header :
         Bind([st EXCEPT !.obj = MapAssetCell(@, tab, header, Cell(row, k), db)],
              LAMBDA one :
         Bind(IF tab = "bom" THEN MapBomCell(one, header, Cell(row, k), db) ELSE one,
              LAMBDA two :
              MapAssetRow(two, tab, headers, row, k + 1, db))))

\* lines 275-291: the id of a bom row without id; rnd is the id that
\* `BOM-${Date.now()}-${Math.floor(Math.random() * 10000)}` yields
BomNaturalKey(obj, rnd, db) ==
    IF Truthy(Get(obj, "id")) THEN obj
    ELSE IF Truthy(Get(obj, "machineCategory"))
            /\ (Truthy(Get(obj, "itemId")) \/ Has(obj, "quantity"))
    THEN LET existingBOM == FindIndex(db.bomRecords,
                 LAMBDA b : /\ Get(b, "machineCategory") = Get(obj, "machineCategory")
                            /\ \/ Get(b, "modelNo") = OrElse(Get(obj, "modelNo"), <<>>)
                               \/ Get(b, "modelNo") = Get(obj, "modelNo")
                            /\ Get(b, "itemId") = Get(obj, "itemId"))
             withId ==
                 IF ~Truthy(Get(obj, "itemId")) THEN obj
                 ELSE IF existingBOM # 0
                 THEN Put(obj, "id", db.bomRecords[existingBOM].id)
                 ELSE Put(obj, "id", rnd)
         IN IF Get(withId, "modelNo") = Undefined THEN Put(withId, "modelNo", <<>>)
            ELSE withId
    ELSE obj

\* lines 293-303: the id of a machine row without id; rnd is the id that
\* `M-${Math.floor(Math.random() * 900000) + 100000}` yields
MachineNaturalKey(obj, rnd, db) ==
    IF Truthy(Get(obj, "id")) THEN obj
    ELSE LET existing ==
                 IF Truthy(Get(obj, "chassisNo"))
                 THEN FindIndex(db.machines,
                          LAMBDA m : Get(m, "chassisNo") = Get(obj, "chassisNo"))
                 ELSE 0
         IN IF existing # 0 THEN Put(obj, "id", db.machines[existing].id)
            ELSE IF Truthy(Get(obj, "category")) THEN Put(obj, "id", rnd)
            ELSE obj

\* lines 306-315: the defaults of a row that has an id
AssetDefaults(obj, tab) ==
    IF tab = "machines"
    THEN Put(Put(Put(obj,
            "category", OrElse(Get(obj, "category"), <<"U","n","k","n","o","w","n"," ","M","a","c","h","i","n","e">>)),
            "status", OrElse(Get(obj, "status"), <<"W","o","r","k","i","n","g">>)),
            "machineLocalNo", OrElse(Get(obj, "machineLocalNo"), <<>>))
    ELSE IF tab = "breakdowns"
    THEN Put(Put(obj,
            "machineName", OrElse(Get(obj, "machineName"), <<"U","n","k","n","o","w","n"," ","M","a","c","h","i","n","e">>)),
            "status", OrElse(Get(obj, "status"), <<"O","p","e","n">>))
    ELSE IF tab = "bom"
    THEN Put(Put(obj,
            "machineCategory", OrElse(Get(obj, "machineCategory"), <<"U","n","k","n","o","w","n">>)),
            "modelNo", OrElse(Get(obj, "modelNo"), <<>>))
    ELSE obj

\* line 322
AssetList(tab, db) ==
    IF tab = "machines" THEN db.machines
    ELSE IF tab = "breakdowns" THEN db.breakdowns
    ELSE db.bomRecords

\* lines 322-325: the row goes to toUpdate when its id exists, to toAdd otherwise
ClassifyMut(acc, obj, list) == [acc EXCEPT !.toAdd = Append(@, obj)]
Classify(acc, obj, list) ==
    LET exists == FindIndex(list, LAMBDA e : e.id = obj.id) IN
    IF exists # 0
    THEN [acc EXCEPT !.toUpdate = Append(@, Spread(list[exists], obj))]
    ELSE [acc EXCEPT !.toAdd = Append(@, obj)]

\* lines 226-329: one data row; rowIndex is 0-based; acc = [toAdd, toUpdate,
\* skippedRows, failedItemMatches]
AssetRow(acc, tab, headers, row, rowIndex, rnd, db) ==
    Bind(MapAssetRow([ obj |-> IF tab = "bom"
                               THEN Put(EmptyObject, "sortOrder", rowIndex)
                               ELSE EmptyObject,
                       failed |-> acc.failedItemMatches ],
                     tab, headers, row, 1, db), LAMBDA mapped :
    Bind(IF tab = "bom" THEN BomNaturalKey(mapped.obj, rnd, db)
         ELSE IF tab = "machines" THEN MachineNaturalKey(mapped.obj, rnd, db)
         ELSE mapped.obj, LAMBDA keyed :
    Bind(AssetDefaults(keyed, tab), LAMBDA obj :
    Bind([acc EXCEPT !.failedItemMatches = mapped.failed], LAMBDA acc1 :
         IF ~Truthy(Get(keyed, "id"))
         THEN [acc1 EXCEPT !.skippedRows = @ + 1]
         ELSE IF tab = "bom" /\ ~Truthy(Get(obj, "itemId")) THEN acc1
         ELSE Classify(acc1, obj, AssetList(tab, db))))))

RECURSIVE AssetRows(_, _, _, _, _, _, _)
\* dataRows.forEach, from the 0-based row k on; rnd[k + 1] is the id a synthesis
\* in row k yields
AssetRows(acc, tab, headers, dataRows, k, rnd, db) ==
    IF k >= Len(dataRows) THEN acc
    ELSE Bind(AssetRow(acc, tab, headers, dataRows[k + 1], k, rnd[k + 1], db),
              LAMBDA next : AssetRows(next, tab, headers, dataRows, k + 1, rnd, db))

NoChangeSet ==
    [ toAdd |-> <<>>, toUpdate |-> <<>>, skippedRows |-> 0, failedItemMatches |-> <<>> ]

\* lines 160-347; an empty grid has no rows[0], and line 171 throws
processImport(rows, tab, rnd, db) ==
    IF rows = <<>>
    THEN [ threw |-> TRUE, called |-> FALSE, alert |-> "Failed to parse file." ]
         @@ NoChangeSet
    ELSE Bind(HeaderRowIndex(rows, AssetHeaderKeywords), LAMBDA headerRowIndex :
         Bind(AssetRows(NoChangeSet, tab, LowerTrimmedRow(rows[headerRowIndex + 1]),
                        SubSeq(rows, headerRowIndex + 2, Len(rows)), 0, rnd, db),
              LAMBDA acc :
              [ threw |-> FALSE, called |-> TRUE,
                alert |-> IF Len(acc.toAdd) + Len(acc.toUpdate) > 0
                          THEN "Successfully processed" ELSE "No valid rows found." ]
              @@ acc))

-----------------------------------------------------------------------------
(* components/HistoryTable.tsx: handleFileChange *)

HistoryHeaderKeywords ==
    { <<"i","d">>, <<"d","a","t","e">>, <<"q","t","y">>, <<"i","t","e","m">>, <<"m","a","c","h","i","n","e">>, <<"u","n","i","t">>, <<"s","t","a","t","u","s">> }

\* obj[key] = val on an object whose keys keep their insertion order: a sequence
\* of [key, val]
PutOrdered(pairs, key, val) ==
    IF \E k \in 1..Len(pairs) : pairs[k].key = key
    THEN [k \in 1..Len(pairs) |->
             IF pairs[k].key = key THEN [ key |-> key, val |-> val ] ELSE pairs[k]]
    ELSE Append(pairs, [ key |-> key, val |-> val ])

RECURSIVE RowObject(_, _, _, _)
\* lines 191-194: headerRaw.forEach((h, i) => obj[String(h)] = r[i]), from header k on
RowObject(pairs, headerRaw, r, k) ==
    IF k > Len(headerRaw) THEN pairs
    ELSE RowObject(PutOrdered(pairs, JsString(headerRaw[k]), Cell(r, k)),
                   headerRaw, r, k + 1)

\* line 195
HasValue(pairs) ==
    \E k \in 1..Len(pairs) : pairs[k].val \notin {Undefined, Null, <<>>}

\* lines 189-198: the row objects of the rows that hold a value
RowObjects(headerRaw, rows) ==
    LET all == [k \in 1..Len(rows) |-> RowObject(<<>>, headerRaw, rows[k], 1)] IN
    SelectSeq(all, HasValue)

\* lines 202-210
resolveLocationId(val, list) ==
    IF ~Truthy(val) THEN <<>>
    ELSE LET trimmed == Trim(JsString(val))
             byId == FindIndex(list, LAMBDA e : e.id = trimmed)
             byName == FindIndex(list,
                 LAMBDA e : ToLowerCase(e.name) = ToLowerCase(trimmed))
         IN IF byId # 0 THEN list[byId].id
            ELSE IF byName # 0 THEN list[byName].id
            ELSE trimmed

\* lines 212-220
resolveMachineId(val, machineList) ==
    IF ~Truthy(val) THEN <<"U","n","k","n","o","w","n">>
    ELSE LET trimmed == Trim(JsString(val))
             byId == FindIndex(machineList, LAMBDA m : m.id = trimmed)
             byName == FindIndex(machineList,
                 LAMBDA m : ToLowerCase(OrElse(Get(m, "category"), <<>>))
                              = ToLowerCase(trimmed))
         IN IF byId # 0 THEN machineList[byId].id
            ELSE IF byName # 0 THEN machineList[byName].id
            ELSE <<"U","n","k","n","o","w","n">>

\* lines 222-230
resolveHistoryItemId(val, itemList) ==
    IF ~Truthy(val) THEN <<>>
    ELSE LET trimmed == Trim(JsString(val))
             byId == FindIndex(itemList, LAMBDA e : e.id = trimmed)
             byName == FindIndex(itemList,
                 LAMBDA e : \/ ToLowerCase(OrElse(Get(e, "name"), <<>>))
                                 = ToLowerCase(trimmed)
                            \/ ToLowerCase(OrElse(Get(e, "fullName"), <<>>))
                                 = ToLowerCase(trimmed))
         IN IF byId # 0 THEN itemList[byId].id
            ELSE IF byName # 0 THEN itemList[byName].id
            ELSE <<>>

\* a date cell of the form YYYY-MM-DD that new Date(val) reads as a date: the
\* month is 01..12 and the day 01..31
IsIsoDate(v) ==
    /\ v # Undefined
    /\ Len(v) = 10
    /\ v[5] = "-" /\ v[8] = "-"
    /\ \A k \in {1, 2, 3, 4, 6, 7, 9, 10} : IsDigit(v[k])
    /\ DecimalValue(SubSeq(v, 6, 7)) \in 1..12
    /\ DecimalValue(SubSeq(v, 9, 10)) \in 1..31

\* the number of days of a month
DaysIn(year, month) ==
    IF month = 2
    THEN IF (year % 4 = 0 /\ year % 100 # 0) \/ year % 400 = 0 THEN 29 ELSE 28
    ELSE IF month \in {4, 6, 9, 11} THEN 30 ELSE 31

\* a number below 100 in two digits
TwoDigits(n) == << Digits[(n \div 10) + 1], Digits[(n % 10) + 1] >>

\* line 243: new Date(val).toISOString(); Invalid stands for the RangeError that
\* toISOString throws on an invalid date.  Dates are cells of the form YYYY-MM-DD,
\* a day the month lacks is a day of the next month; any other cell is text that
\* Date cannot read.
Invalid == <<"(RangeError)">>
ToISOString(v) ==
    IF ~IsIsoDate(v) THEN Invalid
    ELSE LET year == DecimalValue(SubSeq(v, 1, 4))
             month == DecimalValue(SubSeq(v, 6, 7))
             day == DecimalValue(SubSeq(v, 9, 10))
         IN IF day <= DaysIn(year, month) THEN v \o <<"T","0","0",":","0","0",":","0","0",".","0","0","0","Z">>
            ELSE SubSeq(v, 1, 5) \o TwoDigits(month + 1) \o << "-" >>
                 \o TwoDigits(day - DaysIn(year, month)) \o <<"T","0","0",":","0","0",":","0","0",".","0","0","0","Z">>

\* the header names of lines 242-252
RequestFields ==
    << [ field |-> "id", headers |-> { <<"i","d">>, <<"r","e","q","u","e","s","t","i","d">> } ],
       [ field |-> "timestamp", headers |-> { <<"d","a","t","e">>, <<"t","i","m","e","s","t","a","m","p">> } ],
       [ field |-> "locationId", headers |-> { <<"l","o","c","a","t","i","o","n">>, <<"l","o","c","a","t","i","o","n","i","d">>, <<"w","a","r","e","h","o","u","s","e">> } ],
       [ field |-> "itemId",
         headers |-> { <<"i","t","e","m","i","d">>, <<"i","t","e","m","n","u","m","b","e","r">>, <<"i","t","e","m","c","o","d","e">>, <<"p","a","r","t","n","u","m","b","e","r">> } ],
       [ field |-> "itemName", headers |-> { <<"i","t","e","m","n","a","m","e">>, <<"d","e","s","c","r","i","p","t","i","o","n">> } ],
       [ field |-> "quantity", headers |-> { <<"q","t","y">>, <<"q","u","a","n","t","i","t","y">>, <<"c","o","u","n","t">> } ],
       [ field |-> "unit", headers |-> { <<"u","n","i","t">> } ],
       [ field |-> "machineName", headers |-> { <<"m","a","c","h","i","n","e">>, <<"m","a","c","h","i","n","e","n","a","m","e">>, <<"e","q","u","i","p","m","e","n","t">> } ],
       [ field |-> "machineId", headers |-> { <<"m","a","c","h","i","n","e","i","d">>, <<"a","s","s","e","t","i","d">> } ],
       [ field |-> "status", headers |-> { <<"s","t","a","t","u","s">> } ],
       [ field |-> "maintenancePlan",
         headers |-> { <<"p","l","a","n">>, <<"m","a","i","n","t","p","l","a","n">>, <<"m","a","i","n","t","e","n","a","n","c","e","p","l","a","n">> } ] >>

\* the header names of lines 297-301
StockFields ==
    << [ field |-> "id",
         headers |-> { <<"i","d">>, <<"i","t","e","m","i","d">>, <<"i","t","e","m","n","u","m","b","e","r">>, <<"i","t","e","m","c","o","d","e">>, <<"p","a","r","t","n","u","m","b","e","r">> } ],
       [ field |-> "name", headers |-> { <<"n","a","m","e">>, <<"d","e","s","c","r","i","p","t","i","o","n">> } ],
       [ field |-> "stockQuantity",
         headers |-> { <<"s","t","o","c","k","q","t","y">>, <<"q","t","y">>, <<"q","u","a","n","t","i","t","y">>, <<"c","o","u","n","t">> } ],
       [ field |-> "unit", headers |-> { <<"u","n","i","t">> } ],
       [ field |-> "category", headers |-> { <<"c","a","t","e","g","o","r","y">> } ] >>

\* the field a header names in the if/else-if chain, "" for none
FieldOf(fields, header) ==
    LET k == FindIndex(fields, LAMBDA f : header \in f.headers) IN
    IF k = 0 THEN "" ELSE fields[k].field

\* lines 242-252 and 297-301: the value stored for one cell
FieldValue(field, val) ==
    IF field \in {"quantity", "stockQuantity"} THEN Number(val)
    ELSE IF field = "timestamp" THEN ToISOString(val)
    ELSE JsString(val)

RECURSIVE MapKeys(_, _, _, _)
\* lines 238-253 and 294-302: Object.keys(row).forEach, from key k on; the
\* exception of an invalid date ends the loop
MapKeys(obj, fields, pairs, k) ==
    IF k > Len(pairs) \/ Get(obj, "timestamp") = Invalid THEN obj
    ELSE LET header == CleanHeader(ToLowerCase(pairs[k].key))
             field == FieldOf(fields, header)
         IN MapKeys(IF field = "" THEN obj
                    ELSE Put(obj, field, FieldValue(field, pairs[k].val)),
                    fields, pairs, k + 1)

\* the quantity of obj.quantity || 0
QuantityOf(obj, k) == IF Has(obj, k) /\ TruthyNum(obj[k]) THEN obj[k] ELSE 0

\* lines 261-273; rnd is the id that
\* `IMP-${Date.now()}-${Math.random().toString(36).substr(2, 5)}` yields, now the
\* value of new Date().toISOString()
RequestRecord(obj, rnd, now, db) ==
    LET itemId == OrElse(Get(obj, "itemId"), <<>>)
        byId == FindIndex(db.items, LAMBDA e : e.id = itemId)
    IN [ id |-> OrElse(Get(obj, "id"), rnd),
         timestamp |-> OrElse(Get(obj, "timestamp"), now),
         locationId |->
             resolveLocationId(OrElse(Get(obj, "locationId"), <<"U","n","k","n","o","w","n">>), db.locations),
         itemId |-> resolveHistoryItemId(itemId, db.items),
         itemName |->
             OrElse(Get(obj, "itemName"),
                    OrElse(IF byId # 0 THEN Get(db.items[byId], "name") ELSE Undefined,
                           <<"U","n","k","n","o","w","n"," ","I","t","e","m">>)),
         quantity |-> QuantityOf(obj, "quantity"),
         unit |-> OrElse(Get(obj, "unit"), <<"p","c","s">>),
         machineId |->
             resolveMachineId(
                 OrElse(Get(obj, "machineId"), OrElse(Get(obj, "machineName"), <<"U","n","k","n","o","w","n">>)),
                 db.machines),
         machineName |-> OrElse(Get(obj, "machineName"), <<"U","n","k","n","o","w","n">>),
         status |-> OrElse(Get(obj, "status"), <<"C","o","m","p","l","e","t","e","d">>),
         maintenancePlan |-> OrElse(Get(obj, "maintenancePlan"), <<>>) ]

\* lines 284-285
ClassifyRequest(acc, record, historyList) ==
    IF FindIndex(historyList, LAMBDA h : h.id = record.id) # 0
    THEN [acc EXCEPT !.toUpdate = Append(@, record)]
    ELSE [acc EXCEPT !.toAdd = Append(@, record)]

\* lines 236-287: one row of the requests import
RequestRow(acc, pairs, rnd, now, db) ==
    Bind(MapKeys(EmptyObject, RequestFields, pairs, 1), LAMBDA obj :
         IF Get(obj, "timestamp") = Invalid THEN [acc EXCEPT !.threw = TRUE]
         ELSE IF ~(Truthy(Get(obj, "itemId")) /\ QuantityOf(obj, "quantity") # 0) THEN acc
         ELSE Bind(RequestRecord(obj, rnd, now, db), LAMBDA record :
                   IF ~Truthy(record.itemId) THEN acc
                   ELSE IF record.machineId = <<"U","n","k","n","o","w","n">> THEN acc
                   ELSE ClassifyRequest(acc, record, db.history)))

\* lines 304-317
ClassifyStock(acc, obj, itemList) ==
    LET existing == FindIndex(itemList, LAMBDA e : e.id = obj.id) IN
    IF existing # 0
    THEN [acc EXCEPT !.toUpdate = Append(@, Spread(itemList[existing], obj))]
    ELSE [acc EXCEPT !.toAdd = Append(@,
             [ id |-> obj.id,
               name |-> OrElse(Get(obj, "name"), <<"N","e","w"," ","I","t","e","m">>),
               stockQuantity |-> QuantityOf(obj, "stockQuantity"),
               unit |-> OrElse(Get(obj, "unit"), <<"p","c","s">>),
               category |-> OrElse(Get(obj, "category"), <<"G","e","n","e","r","a","l">>) ])]

\* lines 292-318: one row of the stock import
StockRow(acc, pairs, db) ==
    Bind(MapKeys(EmptyObject, StockFields, pairs, 1), LAMBDA obj :
         IF Truthy(Get(obj, "id")) THEN ClassifyStock(acc, obj, db.items) ELSE acc)

RECURSIVE HistoryRows(_, _, _, _, _, _, _)
\* data.forEach of lines 236 and 292, from row k on (1-based); an exception ends it
HistoryRows(acc, tabType, data, k, rnd, now, db) ==
    IF k > Len(data) \/ acc.threw THEN acc
    ELSE Bind(IF tabType = "requests"
              THEN RequestRow(acc, data[k], rnd[k], now, db)
              ELSE StockRow(acc, data[k], db),
              LAMBDA next : HistoryRows(next, tabType, data, k + 1, rnd, now, db))

\* lines 176-326 of reader.onload, for the sheet rawRows
importHistoryFile(rawRows, tabType, rnd, now, db) ==
    Bind(HeaderRowIndex(rawRows, HistoryHeaderKeywords), LAMBDA headerRowIndex :
    Bind(SubSeq(rawRows, headerRowIndex + 2, Len(rawRows)), LAMBDA rows :
    Bind(IF rows = <<>> THEN <<>> ELSE RowObjects(rawRows[headerRowIndex + 1], rows),
         LAMBDA data :
         IF data = <<>>
         THEN [ threw |-> FALSE, called |-> FALSE, alert |-> "No valid data rows found." ]
              @@ NoChangeSet
         ELSE Bind(HistoryRows([ threw |-> FALSE ] @@ NoChangeSet,
                               tabType, data, 1, rnd, now, db), LAMBDA acc :
                   IF acc.threw
                   THEN [ threw |-> TRUE, called |-> FALSE,
                          alert |-> "Failed to process file." ] @@ NoChangeSet
                   ELSE [ called |-> TRUE, alert |-> "Imported" ] @@ acc))))

-----------------------------------------------------------------------------
(* The import handlers as actions *)

\* null where an object may stand
NullObject == [ null |-> TRUE ]

\* master data that no import changes
locations == << [ id |-> <<"L","-","1">>, name |-> <<"W","a","r","e","h","o","u","s","e"," ","A">> ] >>
sectors == << [ id |-> <<"S","-","1">>, name |-> <<"N","o","r","t","h">> ] >>
divisions == << [ id |-> <<"D","-","1">>, name |-> <<"F","i","e","l","d">> ] >>

\* the props of the components in the current state
Db ==
    [ items |-> items, machines |-> machines, breakdowns |-> breakdowns,
      bomRecords |-> bomRecords, history |-> history, locations |-> locations,
      sectors |-> sectors, divisions |-> divisions ]

\* the collection onBulkImport(tab, ...) is called for, by its first argument
Collection(target, db) ==
    IF target = "machines" THEN db.machines
    ELSE IF target = "breakdowns" THEN db.breakdowns
    ELSE IF target = "bom" THEN db.bomRecords
    ELSE IF target = "history" THEN db.history
    ELSE db.items

\* onBulkImport: the updated entities replace the entities of their id, the added
\* ones are appended
Merged(list, added, updated) ==
    [k \in 1..Len(list) |->
        LET hits == { u \in 1..Len(updated) : updated[u].id = list[k].id } IN
        IF hits = {} THEN list[k]
        ELSE updated[CHOOSE u \in hits : \A w \in hits : w <= u]]
    \o added

\* the first argument of onBulkImport for an import tab
TargetOf(tab) ==
    IF tab = "requests" THEN "history" ELSE IF tab = "stock" THEN "items" ELSE tab

\* the props the components are mounted with, the breakdowns prop being bds
ImportInitWith(ms, bds, boms) ==
    /\ items =
         << [ id |-> <<"I","T","-","9">>, name |-> <<"B","o","l","t">>, partNumber |-> <<"P","N","-","5","5">>,
              stockQuantity |-> 5, unit |-> <<"p","c","s">>, category |-> <<"G","e","n","e","r","a","l">> ],
            [ id |-> <<"I","T","-","1","0">>, name |-> <<"N","u","t">>, fullName |-> <<"H","e","x"," ","N","u","t">>,
              stockQuantity |-> 0, unit |-> <<"p","c","s">>, category |-> <<"G","e","n","e","r","a","l">> ] >>
    /\ machines = ms
    /\ breakdowns = bds
    /\ bomRecords = boms
    /\ history =
         << [ id |-> <<"R","-","1">>, timestamp |-> <<"2","0","2","4","-","0","1","-","0","5","T","0","0",":","0","0",":","0","0",".","0","0","0","Z">>,
              locationId |-> <<"L","-","1">>, itemId |-> <<"I","T","-","9">>, itemName |-> <<"B","o","l","t">>,
              quantity |-> 5, unit |-> <<"p","c","s">>, machineId |-> <<"M","-","1">>,
              machineName |-> <<"P","u","m","p">>, status |-> <<"C","o","m","p","l","e","t","e","d">>,
              maintenancePlan |-> <<"W","e","e","k","l","y">>, notes |-> <<"o","k">> ] >>
    /\ passes = 0
    /\ lastImport = [ tab |-> "none" ]
    /\ pending = <<>>
    /\ syncMsg = ""
    /\ editing = NullObject
    /\ editingItem = NullObject
    /\ edits = 0

\* the machines prop with the pump
OneMachine ==
    << [ id |-> <<"M","-","1">>, category |-> <<"P","u","m","p">>, chassisNo |-> <<"C","H","-","1">>,
         status |-> <<"N","o","t"," ","W","o","r","k","i","n","g">>, machineLocalNo |-> <<"7">>,
         locationId |-> <<"L","-","1">> ] >>

\* the bomRecords prop with one part of the pump
OneBom ==
    << [ id |-> <<"B","-","1">>, machineCategory |-> <<"P","u","m","p">>, modelNo |-> <<>>,
         itemId |-> <<"I","T","-","9">>, quantity |-> 1, sortOrder |-> 0 ] >>

\* the props with the breakdowns bds
ImportInitOf(bds) == ImportInitWith(OneMachine, bds, OneBom)

\* the breakdowns prop with one open breakdown of the pump
OneBreakdown ==
    << [ id |-> <<"B","D","-","1">>, machineId |-> <<"M","-","1">>, machineName |-> <<"P","u","m","p">>,
         status |-> <<"O","p","e","n">>, failureType |-> <<"L","e","a","k">> ] >>

ImportInit == ImportInitOf(OneBreakdown)

\* inputs: for each import tab a header row and the data rows the sheets are
\* made of
HeaderRow(tab) ==
    IF tab = "machines" THEN << <<"I","D">>, <<"N","a","m","e">>, <<"C","h","a","s","s","i","s"," ","N","o">>, <<"S","t","a","t","u","s">> >>
    ELSE IF tab = "breakdowns" THEN << <<"I","D">>, <<"M","a","c","h","i","n","e"," ","N","a","m","e">>, <<"S","t","a","t","u","s">> >>
    ELSE IF tab = "bom" THEN << <<"I","D">>, <<"M","a","c","h","i","n","e">>, <<"M","o","d","e","l">>, <<"I","t","e","m"," ","C","o","d","e">>, <<"Q","t","y">> >>
    ELSE IF tab = "requests" THEN << <<"R","e","q","u","e","s","t"," ","I","D">>, <<"I","t","e","m"," ","C","o","d","e">>, <<"Q","t","y">>, <<"M","a","c","h","i","n","e">> >>
    ELSE << <<"I","t","e","m"," ","C","o","d","e">>, <<"N","a","m","e">>, <<"Q","t","y">> >>

DataRows(tab) ==
    IF tab = "machines"
    THEN << << <<"M","-","1">>, <<"P","u","m","p">>, <<"C","H","-","1">>, <<>> >>,
            << <<>>, <<"D","r","i","l","l">>, <<"C","H","-","9">>, <<>> >>,
            << <<>>, <<"D","r","i","l","l">>, <<>>, <<>> >>,
            << <<"M","-","7">>, <<"L","a","t","h","e">>, <<>>, <<"W","o","r","k","i","n","g">> >> >>
    ELSE IF tab = "breakdowns"
    THEN << << <<"B","D","-","1">>, <<"P","u","m","p">>, <<"C","l","o","s","e","d">> >>,
            << <<"B","D","-","2">>, <<"D","r","i","l","l">>, <<>> >>,
            << <<>>, <<"P","u","m","p">>, <<"O","p","e","n">> >> >>
    ELSE IF tab = "bom"
    THEN << << <<>>, <<"P","u","m","p">>, <<"X","1">>, <<"I","T","-","9">>, <<"2">> >>,
            << <<"B","-","7">>, <<"P","u","m","p">>, <<"X","1">>, <<"P","N","-","5","5">>, <<"3">> >>,
            << <<>>, <<"P","u","m","p">>, <<"X","1">>, <<"Z","Z","-","0">>, <<"1">> >>,
            << <<"B","-","1">>, <<"P","u","m","p">>, <<>>, <<"I","T","-","9">>, <<"a","b","c">> >> >>
    ELSE IF tab = "requests"
    THEN << << <<>>, <<"I","T","-","9">>, <<"1","2">>, <<"P","u","m","p">> >>,
            << <<"R","-","1">>, <<"I","T","-","9">>, <<"6">>, <<"P","u","m","p">> >>,
            << <<"R","-","2">>, <<"b","o","l","t">>, <<"3">>, <<"M","-","1">> >>,
            << <<"R","-","3">>, <<"Z","Z","-","0">>, <<"4">>, <<"P","u","m","p">> >> >>
    ELSE << << <<"I","T","-","9">>, <<"B","o","l","t">>, <<"7">> >>,
            << <<"I","T","-","5">>, <<"W","a","s","h","e","r">>, <<"x">> >>,
            << <<>>, <<"N","u","t">>, <<"1">> >> >>

\* inputs: the sheets, a header row followed by one data row, by the same data
\* row twice or by the first two data rows
Sheets(tab) ==
    LET rows == DataRows(tab) IN
    { << HeaderRow(tab), rows[a] >> : a \in 1..Len(rows) }
    \cup { << HeaderRow(tab), rows[a], rows[a] >> : a \in 1..Len(rows) }
    \cup { << HeaderRow(tab), rows[1], rows[2] >> }

\* inputs: the ids an id synthesis can yield
SynthesizedIds(tab) ==
    IF tab = "machines" THEN { <<"M","-","1","0","0","0","0","1">>, <<"M","-","1","0","0","0","0","2">> }
    ELSE IF tab = "bom" THEN { <<"B","O","M","-","1","7","0","0","0","0","0","0","0","0","0","0","0","-","1">>, <<"B","O","M","-","1","7","0","0","0","0","0","0","0","0","0","0","0","-","2">> }
    ELSE IF tab = "requests" THEN { <<"I","M","P","-","1","7","0","0","0","0","0","0","0","0","0","0","0","-","a","1","b","2","c">>, <<"I","M","P","-","1","7","0","0","0","0","0","0","0","0","0","0","0","-","z","9","y","8","x">> }
    ELSE { <<>> }

\* the rows in which an id synthesis can happen (1-based among the data rows)
NeedsId(tab, sheet) ==
    { k \in 1..(Len(sheet) - 1) : ~Truthy(sheet[k + 1][1]) }

\* inputs: the value of new Date().toISOString() in each pass
Clock == << <<"2","0","2","6","-","0","1","-","0","1","T","0","0",":","0","0",":","0","0",".","0","0","0","Z">>, <<"2","0","2","6","-","0","1","-","0","2","T","0","0",":","0","0",":","0","0",".","0","0","0","Z">>,
            <<"2","0","2","6","-","0","1","-","0","3","T","0","0",":","0","0",":","0","0",".","0","0","0","Z">> >>

AssetTabs == {"machines", "breakdowns", "bom"}
HistoryTabs == {"requests", "stock"}

\* inputs: the tabs of AssetManagement (line 59)
AssetActiveTabs == {"assets", "breakdowns", "bom", "transfers", "history", "warranty"}

\* inputs: the tabs a user imports on, one for each tabKey
ImportTabs == {"assets", "breakdowns", "bom"}

\* what the handlers of the tabs, of the filters and of the form leave alone
StoreFrame ==
    /\ UNCHANGED <<history, items, passes, lastImport, pending, syncMsg, editing,
                   editingItem, edits, timeZone>>
    /\ UNCHANGED <<gatewayVars, callVars, transferVars>>

\* that, and the prefill saved for the issue form
ViewFrame == StoreFrame /\ UNCHANGED issuePrefill

\* what the handlers of the tabs and of the form leave alone: that, and the
\* filters other than the location
FormFrame == ViewFrame /\ UNCHANGED filterVars

\* the tab buttons, lines 752-757; the effects of lines 90-102 empty the
\* selection when the tab changes
setActiveTab(tab) ==
    /\ tab # activeTab
    /\ activeTab' = tab
    /\ selectedIds' = {}
    /\ calls' = <<>>
    /\ UNCHANGED <<machines, breakdowns, bomRecords, showForm, isEditing, formData,
                   filterLocationId, forms, typed>>
    /\ FormFrame

\* inputs: the texts of the sheet field (line 767), none and the id of a sheet
SheetIds == { <<>>, <<"s","h","e","e","t","-","2">> }

\* the syncConfig a browser has saved (lines 74-79): a sheet for each tabKey
SavedConfig == [ tabKey \in AssetTabs |-> <<"s","h","e","e","t","-","1">> ]

\* inputs: the syncConfig a browser has saved, with a sheet for each tabKey or
\* with none
SavedConfigs == { SavedConfig, [ tabKey \in AssetTabs |-> <<>> ] }

\* the tabKey of handleSheetUrlPaste (lines 115-117) and of handleSyncData
\* (lines 126-128), the tab of handleFileChange (lines 458-460)
TabKey(tab) ==
    IF tab = "bom" THEN "bom"
    ELSE IF tab = "breakdowns" THEN "breakdowns"
    ELSE "machines"

\* the entry of syncConfig the sheet field shows, line 770
SheetFieldKey(tab) ==
    IF tab = "assets" THEN "machines"
    ELSE IF tab = "bom" THEN "bom"
    ELSE "breakdowns"

\* handleSheetUrlPaste, lines 114-123, of the sheet field (line 771), which
\* changes when the text differs from the one it shows; the effect of lines
\* 90-93 empties the selection
handleSheetUrlPaste(val) ==
    /\ val # syncConfig[SheetFieldKey(activeTab)]
    /\ syncConfig' = [ syncConfig EXCEPT ![TabKey(activeTab)] = val ]
    /\ selectedIds' = {}
    /\ calls' = <<>>
    /\ UNCHANGED <<machines, breakdowns, bomRecords, activeTab, showForm, isEditing,
                   formData, filterLocationId, forms, typed>>
    /\ UNCHANGED <<searchTerm, filterStatus, filterMachineName, bomFilterMachine,
                   bomFilterModel, expandedAssetId>>
    /\ ViewFrame

\* inputs: what fetchRawCSV yields other than a grid, a rejected promise
Rejected == << << << "(rejected)" >> >> >>

\* a list without its k-th element
Remove(list, k) == SubSeq(list, 1, k - 1) \o SubSeq(list, k + 1, Len(list))

\* the callback of a file reader or the rest of handleSyncData is still to run
Pending(via) == \E k \in 1..Len(pending) : pending[k].via = via

\* the callback that is to run later: it keeps the tab and the props of the
\* render in which it was made
Callback(via, tab) == [ via |-> via, tab |-> tab, db |-> Db ]

\* the state after the k-th pending callback ran on a sheet: onBulkImport(target,
\* toAdd, toUpdate) of the parent works on the collection as it is now
AfterImport(k, sheet, out, msg) ==
    LET p == pending[k]
        target == TargetOf(p.tab)
        list == IF out.called
                THEN Merged(Collection(target, Db), out.toAdd, out.toUpdate)
                ELSE Collection(target, Db)
    IN  /\ machines' = IF target = "machines" THEN list ELSE machines
        /\ breakdowns' = IF target = "breakdowns" THEN list ELSE breakdowns
        /\ bomRecords' = IF target = "bom" THEN list ELSE bomRecords
        /\ history' = IF target = "history" THEN list ELSE history
        /\ items' = IF target = "items" THEN list ELSE items
        /\ passes' = passes + 1
        /\ pending' = Remove(pending, k)
        /\ syncMsg' = IF p.via = "sync" THEN msg ELSE syncMsg
        /\ lastImport' =
               [ tab |-> p.tab, via |-> p.via, rows |-> sheet, db |-> p.db,
                 existing |-> Collection(target, p.db), after |-> list,
                 toAdd |-> out.toAdd, toUpdate |-> out.toUpdate,
                 skippedRows |-> out.skippedRows,
                 failedItemMatches |-> out.failedItemMatches,
                 threw |-> out.threw, called |-> out.called, alert |-> out.alert,
                 syncMsg |-> IF p.via = "sync" THEN msg ELSE "" ]
        /\ UNCHANGED <<editing, editingItem, edits>>

\* AssetManagement.tsx handleFileChange, lines 445-470: a file is chosen, the
\* reader is started and the handler returns
handleFileChange ==
    /\ passes + Len(pending) < MaxPasses
    /\ pending' = Append(pending, Callback("file", TabKey(activeTab)))
    /\ UNCHANGED <<machines, breakdowns, bomRecords, history, items, passes,
                   lastImport, syncMsg, editing, editingItem, edits>>
    /\ UNCHANGED <<gatewayVars, callVars, transferVars, formVars>>

\* reader.onload of handleFileChange, lines 449-467: the rows of the sheet go to
\* the processImport of the render in which the file was chosen
ImportAssets(k, sheet, rnd) ==
    /\ pending[k].via = "file" /\ pending[k].tab \in AssetTabs
    /\ \E out \in { processImport(sheet, pending[k].tab, rnd, pending[k].db) } :
           AfterImport(k, sheet, out, "")
    /\ UNCHANGED <<gatewayVars, callVars, transferVars, formVars>>

\* handleSyncData up to its await, lines 125-146; the button is disabled while
\* a sync runs (line 773)
handleSyncData ==
    /\ ~Pending("sync")
    /\ IF ~Truthy(syncConfig[TabKey(activeTab)])
       THEN /\ syncMsg # "Please enter a Sheet ID/URL."
            /\ syncMsg' = "Please enter a Sheet ID/URL."
            /\ UNCHANGED pending
       ELSE /\ passes + Len(pending) < MaxPasses
            /\ syncMsg' = "Syncing " \o TabKey(activeTab) \o "..."
            /\ pending' = Append(pending, Callback("sync", TabKey(activeTab)))
    /\ UNCHANGED <<machines, breakdowns, bomRecords, history, items, passes,
                   lastImport, editing, editingItem, edits>>
    /\ UNCHANGED <<gatewayVars, callVars, transferVars, formVars>>

\* what the rest of handleSyncData does with what fetchRawCSV yielded, lines
\* 146-157: processImport runs on more than one row only, and what it throws is
\* reported through setSyncMsg
SyncOutcome(fetched, tab, rnd, db) ==
    IF fetched = Rejected
    THEN [ out |-> [ threw |-> TRUE, called |-> FALSE, alert |-> "none" ] @@ NoChangeSet,
           msg |-> "Error: Failed to fetch" ]
    ELSE IF Len(fetched) > 1
    THEN Bind(processImport(fetched, tab, rnd, db), LAMBDA out :
              IF out.threw
              THEN [ out |-> [ alert |-> "none" ] @@ out,
                     msg |-> "Error: Cannot read properties of undefined" ]
              ELSE [ out |-> out, msg |-> "Sync success!" ])
    ELSE [ out |-> [ threw |-> FALSE, called |-> FALSE, alert |-> "none" ] @@ NoChangeSet,
           msg |-> "No data found or empty sheet." ]

\* handleSyncData after its await, lines 146-157
SyncAssets(k, fetched, rnd) ==
    /\ pending[k].via = "sync"
    /\ \E r \in { SyncOutcome(fetched, pending[k].tab, rnd, pending[k].db) } :
           AfterImport(k, fetched, r.out, r.msg)
    /\ UNCHANGED <<gatewayVars, callVars, transferVars, formVars>>

\* HistoryTable.tsx handleFileChange, lines 164-329: a file is chosen, the
\* reader is started and the handler returns
HistoryFileChange(tab) ==
    /\ passes + Len(pending) < MaxPasses
    /\ pending' = Append(pending, Callback("file", tab))
    /\ UNCHANGED <<machines, breakdowns, bomRecords, history, items, passes,
                   lastImport, syncMsg, editing, editingItem, edits>>
    /\ UNCHANGED <<gatewayVars, callVars, transferVars, formVars>>

\* reader.onload of HistoryTable.tsx handleFileChange, lines 168-327
ImportHistory(k, sheet, rnd) ==
    /\ pending[k].via = "file" /\ pending[k].tab \in HistoryTabs
    /\ \E out \in { importHistoryFile(sheet, pending[k].tab, rnd, Clock[passes + 1],
                                      pending[k].db) } :
           AfterImport(k, sheet, out, "")
    /\ UNCHANGED <<gatewayVars, callVars, transferVars, formVars>>

\* inputs: one synthesized id for each data row; a row that has an id draws none
RandomIds(tab, sheet) ==
    { rnd \in [1..(Len(sheet) - 1) -> SynthesizedIds(tab)] :
        \A k \in 1..(Len(sheet) - 1) :
            k \notin NeedsId(tab, sheet) =>
                rnd[k] = CHOOSE x \in SynthesizedIds(tab) : TRUE }

-----------------------------------------------------------------------------
(* Edits of the collections the imports read *)

\* inputs: the numbers typed into the quantity of an issue record
Quantities == { 0, 7 }

\* inputs: the fields typed into the form of an item, with the number typed
ItemInputs == { << "unitCost", 2 >>, << "annualUsage", 10 >> }

\* o.k || 0 of a field that holds a number
NumberOrZero(o, k) == IF k \in DOMAIN o /\ TruthyNum(o[k]) THEN o[k] ELSE 0

\* onUpdateIssue and onUpdateItem of the parent: the list with the entities of
\* that id replaced
Replaced(list, e) == [ k \in 1..Len(list) |-> IF list[k].id = e.id THEN e ELSE list[k] ]

\* the edits leave the imports and the other collections alone
EditFrame ==
    /\ UNCHANGED <<machines, breakdowns, bomRecords, passes, lastImport, pending, syncMsg>>
    /\ UNCHANGED <<gatewayVars, callVars, transferVars, formVars>>

\* HistoryTable.tsx line 504: a click on the quantity of the k-th record
ClickQuantity(k) ==
    /\ edits < MaxEdits
    /\ editing = NullObject
    /\ editing' = [ editingId |-> history[k].id, editQty |-> history[k].quantity ]
    /\ edits' = edits + 1
    /\ UNCHANGED <<history, items, editingItem>>
    /\ EditFrame

\* line 479: onChange of the quantity
TypeQuantity(n) ==
    /\ editing # NullObject
    /\ editing.editQty # n
    /\ editing' = [ editing EXCEPT !.editQty = n ]
    /\ UNCHANGED <<history, items, editingItem, edits>>
    /\ EditFrame

\* lines 480-487 (and 488-498 for the Enter key): the quantity of the k-th record
\* loses the focus
BlurQuantity(k) ==
    /\ editing # NullObject
    /\ history[k].id = editing.editingId
    /\ LET record == history[k]
           qty == editing.editQty
           item == FindIndex(items, LAMBDA x : x.id = Get(record, "itemId"))
           cost == (IF item = 0 THEN 0 ELSE NumberOrZero(items[item], "cost")) * qty
       IN  history' = IF qty # record.quantity
                      THEN Replaced(history, Spread(record,
                               [ quantity |-> qty, calculatedTotalCost |-> cost ]))
                      ELSE history
    /\ editing' = NullObject
    /\ UNCHANGED <<items, editingItem, edits>>
    /\ EditFrame

\* MROManagement.tsx line 250: the Edit button of the k-th item, which is there
\* while the form is open as well
EditItem(k) ==
    /\ edits < MaxEdits
    /\ editingItem' = items[k]
    /\ edits' = edits + 1
    /\ UNCHANGED <<history, items, editing>>
    /\ EditFrame

\* lines 277-312: onChange of a field of the form
TypeItemField(field, value) ==
    /\ editingItem # NullObject
    /\ NumberOrZero(editingItem, field) # value
    /\ editingItem' = Put(editingItem, field, value)
    /\ UNCHANGED <<history, items, editing, edits>>
    /\ EditFrame

\* line 272: the form is closed
CloseItem ==
    /\ editingItem # NullObject
    /\ editingItem' = NullObject
    /\ UNCHANGED <<history, items, editing, edits>>
    /\ EditFrame

\* handleSaveItem, lines 143-149
handleSaveItem ==
    /\ editingItem # NullObject
    /\ items' = Replaced(items, editingItem)
    /\ editingItem' = NullObject
    /\ UNCHANGED <<history, editing, edits>>
    /\ EditFrame

\* the items with their usageValue, lines 114-117 before the sort
WithUsage(list) ==
    [ k \in 1..Len(list) |->
        Spread(list[k], [ usageValue |-> NumberOrZero(list[k], "annualUsage")
                                           * NumberOrZero(list[k], "unitCost") ]) ]

\* Array.prototype.sort by falling usageValue (line 117); the sort is stable
RECURSIVE SortedByUsage(_)
SortedByUsage(list) ==
    IF list = <<>> THEN <<>>
    ELSE LET top == CHOOSE k \in 1..Len(list) :
                        \A m \in 1..Len(list) :
                            \/ list[m].usageValue < list[k].usageValue
                            \/ list[m].usageValue = list[k].usageValue /\ k <= m
         IN  << list[top] >> \o SortedByUsage(Remove(list, top))

\* the sum of the usageValue of the first n items
RECURSIVE Cumulative(_, _)
Cumulative(sorted, n) ==
    IF n = 0 THEN 0 ELSE Cumulative(sorted, n - 1) + sorted[n].usageValue

\* lines 123-131: the class of the n-th item of the sorted list
AbcClass(sorted, n) ==
    LET totalValue == Cumulative(sorted, Len(sorted))
        cumulative == Cumulative(sorted, n)
    IN  IF totalValue <= 0 THEN "A"
        ELSE IF cumulative * 100 <= 80 * totalValue THEN "A"
        ELSE IF cumulative * 100 <= 95 * totalValue THEN "B"
        ELSE "C"

\* lines 133-138: onUpdateItem for each item whose class changed, in the order of
\* the sorted list
RECURSIVE AbcUpdates(_, _, _, _)
AbcUpdates(list, original, sorted, n) ==
    IF n > Len(sorted) THEN list
    ELSE LET u == Spread(sorted[n], [ abcClass |-> << AbcClass(sorted, n) >> ])
             first == FindIndex(original, LAMBDA x : x.id = u.id)
         IN  AbcUpdates(IF first # 0 /\ Get(original[first], "abcClass") # u.abcClass
                        THEN Replaced(list, u) ELSE list,
                        original, sorted, n + 1)

\* calculateABC, lines 113-141; its button (line 200) is there while the form
\* of an item is open as well
calculateABC ==
    /\ edits < MaxEdits
    /\ items' = AbcUpdates(items, items, SortedByUsage(WithUsage(items)), 1)
    /\ edits' = edits + 1
    /\ UNCHANGED <<history, editing, editingItem>>
    /\ EditFrame

EditNext ==
    \/ \E k \in 1..Len(history) : ClickQuantity(k)
    \/ \E n \in Quantities : TypeQuantity(n)
    \/ \E k \in 1..Len(history) : BlurQuantity(k)
    \/ \E k \in 1..Len(items) : EditItem(k)
    \/ \E input \in ItemInputs : TypeItemField(input[1], input[2])
    \/ CloseItem
    \/ handleSaveItem
    \/ calculateABC

\* up to MaxPasses imports by file and by sync
ImportNext ==
    \/ \E tab \in ImportTabs : setActiveTab(tab)
    \/ handleFileChange
    \/ handleSyncData
    \/ \E tab \in HistoryTabs : HistoryFileChange(tab)
    \/ \E k \in 1..Len(pending) : \E sheet \in Sheets(pending[k].tab) :
           \E rnd \in RandomIds(pending[k].tab, sheet) : ImportAssets(k, sheet, rnd)
    \/ \E k \in 1..Len(pending) : \E fetched \in Sheets(pending[k].tab) \cup { Rejected } :
           \E rnd \in RandomIds(pending[k].tab, fetched) : SyncAssets(k, fetched, rnd)
    \/ \E k \in 1..Len(pending) : \E sheet \in Sheets(pending[k].tab) :
           \E rnd \in RandomIds(pending[k].tab, sheet) : ImportHistory(k, sheet, rnd)

\* inputs: the sheets imported between the edits, a header row followed by one
\* data row of an entity the collection holds
EditSheets(tab) ==
    { << HeaderRow(tab), DataRows(tab)[IF tab = "requests" THEN 2 ELSE 1] >> }

\* the edits, and the imports of HistoryTable.tsx that read what they change
EditsNext ==
    \/ EditNext
    \/ \E tab \in HistoryTabs : HistoryFileChange(tab)
    \/ \E k \in 1..Len(pending) : \E sheet \in EditSheets(pending[k].tab) :
           \E rnd \in RandomIds(pending[k].tab, sheet) : ImportHistory(k, sheet, rnd)
-----------------------------------------------------------------------------
(* Imports of irregular sheets *)

\* inputs: sheets of other columns than HeaderRow, with rows shorter than the
\* header row, cells that are no number or no date, dates of a day the month
\* lacks, references that match
\* nothing; the empty grid and a grid of a header row only
IrregularSheets(tab) ==
    { <<>>, << HeaderRow(tab) >> }
    \cup
    (IF tab = "machines"
     THEN { << << <<"N","a","m","e">>, <<"C","h","a","s","s","i","s"," ","N","o">>, <<"I","D">> >>, << <<"D","r","i","l","l">>, <<"C","H","-","9">> >> >>,
            << << <<"N","a","m","e">>, <<"C","h","a","s","s","i","s"," ","N","o">>, <<"I","D">> >>, << <<"P","u","m","p">>, <<"C","H","-","1">>, <<"M","-","1">> >> >> }
     ELSE IF tab = "breakdowns"
     THEN { << << <<"M","a","c","h","i","n","e"," ","N","a","m","e">>, <<"S","t","a","t","u","s">>, <<"I","D">> >>, << <<"P","u","m","p">> >> >>,
            << << <<"M","a","c","h","i","n","e"," ","N","a","m","e">>, <<"S","t","a","t","u","s">>, <<"I","D">> >>, << <<"P","u","m","p">>, <<"C","l","o","s","e","d">>, <<"B","D","-","1">> >> >> }
     ELSE IF tab = "bom"
     THEN { << << <<"M","a","c","h","i","n","e">>, <<"M","o","d","e","l">>, <<"I","t","e","m"," ","C","o","d","e">>, <<"Q","t","y">>, <<"I","D">> >>,
               << <<"P","u","m","p">>, <<"X","1">>, <<"I","T","-","9">> >> >>,
            << HeaderRow(tab), << <<"B","-","1">>, <<"P","u","m","p">>, <<>>, <<"I","T","-","9">>, <<"a","b","c">> >> >>,
            << HeaderRow(tab), << <<"B","-","8">>, <<"P","u","m","p">>, <<"X","2">>, <<"I","T","-","1","0">>, <<"a","b","c">> >> >>,
            << HeaderRow(tab), << <<"B","-","9">>, <<"P","u","m","p">>, <<"X","1">>, <<"Z","Z","-","0">>, <<"1">> >> >>,
            << HeaderRow(tab), << <<"B","-","9">>, <<"P","u","m","p">>, <<"X","1">>, <<"Z","Z","-","0">>, <<"1">> >>,
               << <<>>, <<"P","u","m","p">>, <<"X","1">>, <<" ","Z","Z","-","0">>, <<"1">> >>,
               << <<>>, <<"P","u","m","p">>, <<"X","1">>, <<"P","N","-","5","5">>, <<"2">> >> >>,
            << << <<"I","D">>, <<"M","a","c","h","i","n","e">>, <<"I","t","e","m"," ","C","o","d","e">>, <<"P","a","r","t"," ","N","u","m","b","e","r">> >>,
               << <<"B","-","5">>, <<"P","u","m","p">>, <<"Z","Z","-","0">>, <<"P","N","-","5","5">> >>,
               << <<"B","-","6">>, <<"P","u","m","p">>, <<"I","T","-","9">>, <<"Z","Z","-","1">> >> >> }
     ELSE IF tab = "requests"
     THEN { << << <<"I","t","e","m"," ","C","o","d","e">>, <<"Q","t","y">>, <<"L","o","c","a","t","i","o","n">> >>,
               << <<"P","N","-","5","5">>, <<"1","2">>, <<"W","a","r","e","h","o","u","s","e"," ","A">> >> >>,
            << << <<"I","t","e","m"," ","C","o","d","e">>, <<"Q","t","y">>, <<"L","o","c","a","t","i","o","n">>, <<"M","a","c","h","i","n","e">> >>,
               << <<"P","N","-","5","5">>, <<"1","2">>, <<"W","a","r","e","h","o","u","s","e"," ","A">>, <<"P","u","m","p">> >> >>,
            << HeaderRow(tab), << <<"R","-","4">>, <<"I","T","-","9">>, <<"2">>, <<"C","r","a","n","e">> >> >>,
            << HeaderRow(tab), << <<"R","-","1">>, <<"I","T","-","9">>, <<"2">>, <<"C","r","a","n","e">> >> >>,
            << HeaderRow(tab), << <<"R","-","5">>, <<"I","T","-","9">>, <<"a","b","c">>, <<"P","u","m","p">> >> >>,
            << HeaderRow(tab), << <<"R","-","1">>, <<"I","T","-","9">>, <<"a","b","c">>, <<"P","u","m","p">> >> >>,
            << << <<"R","e","q","u","e","s","t"," ","I","D">>, <<"D","a","t","e">>, <<"I","t","e","m"," ","C","o","d","e">>, <<"Q","t","y">>, <<"M","a","c","h","i","n","e">> >>,
               << <<"R","-","6">>, <<"2","0","2","4","-","0","3","-","0","5">>, <<"I","T","-","9">>, <<"1">>, <<"P","u","m","p">> >> >>,
            << << <<"R","e","q","u","e","s","t"," ","I","D">>, <<"D","a","t","e">>, <<"I","t","e","m"," ","C","o","d","e">>, <<"Q","t","y">>, <<"M","a","c","h","i","n","e">> >>,
               << <<"R","-","6">>, <<"2","0","2","4","-","0","3","-","0","5">>, <<"I","T","-","9">>, <<"1">>, <<"P","u","m","p">> >>,
               << <<"R","-","7">>, <<"n","e","x","t"," ","w","e","e","k">>, <<"I","T","-","9">>, <<"1">>, <<"P","u","m","p">> >>,
               << <<"R","-","8">>, <<"2","0","2","4","-","0","3","-","0","7">>, <<"I","T","-","9">>, <<"1">>, <<"P","u","m","p">> >> >>,
            << << <<"R","e","q","u","e","s","t"," ","I","D">>, <<"D","a","t","e">>, <<"I","t","e","m"," ","C","o","d","e">>, <<"Q","t","y">>, <<"M","a","c","h","i","n","e">> >>,
               << <<"R","-","6">>, <<"2","0","2","4","-","0","1","-","3","1">>, <<"I","T","-","9">>, <<"1">>, <<"P","u","m","p">> >>,
               << <<"R","-","8">>, <<"2","0","2","4","-","0","2","-","3","0">>, <<"I","T","-","9">>, <<"1">>, <<"P","u","m","p">> >> >>,
            << << <<"I","t","e","m"," ","C","o","d","e">>, <<"Q","t","y">>, <<"M","a","c","h","i","n","e">>, <<"R","e","q","u","e","s","t"," ","I","D">> >>,
               << <<"I","T","-","9">>, <<"3">>, <<"P","u","m","p">> >> >> }
     ELSE { << HeaderRow(tab), << <<"I","T","-","9">>, <<"B","o","l","t">>, <<"x">> >> >>,
            << HeaderRow(tab), << <<"I","T","-","5">>, <<"W","a","s","h","e","r">>, <<"x">> >> >>,
            << << <<"N","a","m","e">>, <<"Q","t","y">>, <<"I","t","e","m"," ","C","o","d","e">> >>, << <<"N","u","t">>, <<"1">> >> >> })

\* inputs: one synthesized id for each row below the first
IrregularIds(tab, sheet) == [1..(Len(sheet) - 1) -> SynthesizedIds(tab)]

IrregularNext ==
    \/ \E tab \in ImportTabs : setActiveTab(tab)
    \/ handleFileChange
    \/ handleSyncData
    \/ \E tab \in HistoryTabs : HistoryFileChange(tab)
    \/ \E k \in 1..Len(pending) : \E sheet \in IrregularSheets(pending[k].tab) :
           \E rnd \in IrregularIds(pending[k].tab, sheet) : ImportAssets(k, sheet, rnd)
    \/ \E k \in 1..Len(pending) :
           \E fetched \in IrregularSheets(pending[k].tab) \cup { Rejected } :
               \E rnd \in IrregularIds(pending[k].tab, fetched) : SyncAssets(k, fetched, rnd)
    \/ \E k \in 1..Len(pending) : \E sheet \in IrregularSheets(pending[k].tab) :
           \E rnd \in IrregularIds(pending[k].tab, sheet) : ImportHistory(k, sheet, rnd)
-----------------------------------------------------------------------------
(* The resolvers and the header detectors, called on their own *)

\* no such call is made
NoCall == args = [ fn |-> "none" ] /\ returned = [ fn |-> "none" ]

\* inputs: the master items the lists of a call are made of
ItemPool ==
    { [ id |-> <<"I","T","-","9">>, name |-> <<"B","o","l","t">>, partNumber |-> <<"P","N","-","5","5">> ],
      [ id |-> <<"i","t","-","9">>, name |-> <<"N","u","t">>, fullName |-> <<"H","e","x"," ","N","u","t">> ],
      [ id |-> <<"P","N","-","5","5">>, name |-> <<"W","a","s","h","e","r">>, secondId |-> <<"I","T","-","9">> ],
      [ id |-> <<"A","'","1">>, name |-> <<"p","n","-","5","5">>, thirdId |-> <<"B","o","l","t">> ],
      [ id |-> <<" ","X","7"," ">>, name |-> <<"G","e","a","r">>, partNumber |-> <<"0","-","0","-","7">> ],
      [ id |-> <<"7">>, name |-> <<"S","e","a","l">> ] }

\* inputs: the item lists, two items of different ids in either order
ItemLists ==
    { << a, b >> : a \in ItemPool, b \in ItemPool } \ { << a, a >> : a \in ItemPool }

\* inputs: the references, the ids of the pool among them
References ==
    { e.id : e \in ItemPool }
    \cup { <<"b","o","l","t">>, <<"H","e","x"," ","N","u","t">>, <<"9">>, <<"0","0","7">>, <<"'","I","T","-","9","'">>, <<" ","p","n","-","5","5"," ">>, <<"Z","Z","-","0">>, <<>> }

ResolveInit == args \in [ fn : {"resolveItemId"}, val : References, items : ItemLists ]
               /\ returned = [ fn |-> "none" ]

\* AssetManagement.tsx resolveItemId, lines 190-224, called with args.val
ResolveAssetItem ==
    /\ args.fn = "resolveItemId"
    /\ returned.fn = "none"
    /\ returned' = [ fn |-> "AssetManagement", value |-> resolveItemId(args.val, args.items) ]
    /\ UNCHANGED <<gatewayVars, importVars, args, transferVars, formVars>>

\* HistoryTable.tsx resolveItemId, lines 222-230, called with args.val
ResolveHistoryItem ==
    /\ args.fn = "resolveItemId"
    /\ returned.fn = "none"
    /\ returned' =
           [ fn |-> "HistoryTable", value |-> resolveHistoryItemId(args.val, args.items) ]
    /\ UNCHANGED <<gatewayVars, importVars, args, transferVars, formVars>>

ResolveNext == ResolveAssetItem \/ ResolveHistoryItem

\* inputs: the rows the grids of a call are made of
GridRows ==
    { << <<"I","D">>, <<"N","a","m","e">>, <<"Q","t","y">> >>,
      << <<"D","a","t","e">>, <<"S","t","a","t","u","s">> >>,
      << <<" ","S","e","r","i","a","l"," ","N","o"," ">>, <<"B","R","A","N","D">> >>,
      << <<"U","n","i","t">>, <<"x">> >>,
      << <<"R","e","p","o","r","t">>, <<>>, <<>> >>,
      << <<>>, <<>> >> }

\* the grid of n blank rows followed by the rows of tail
Padded(n, tail) == [k \in 1..n |-> << <<>>, <<>> >>] \o tail

\* inputs: the grids, of up to MaxGridRows rows, and two grids whose first row
\* with keywords is the tenth and the eleventh
Grids ==
    UNION { [1..n -> GridRows] : n \in 0..MaxGridRows }
    \cup { Padded(n, << r >>) : n \in {9, 10}, r \in GridRows }

HeaderInit == args \in [ fn : {"headerRowIndex"}, rows : Grids ]
              /\ returned = [ fn |-> "none" ]

\* AssetManagement.tsx processImport, lines 161-169
DetectAssetHeader ==
    /\ args.fn = "headerRowIndex"
    /\ ~Has(returned, "asset")
    /\ returned' = [ fn |-> "headerRowIndex",
                     asset |-> HeaderRowIndex(args.rows, AssetHeaderKeywords) ]
                   @@ returned
    /\ UNCHANGED <<gatewayVars, importVars, args, transferVars, formVars>>

\* HistoryTable.tsx handleFileChange, lines 177-185
DetectHistoryHeader ==
    /\ args.fn = "headerRowIndex"
    /\ ~Has(returned, "history")
    /\ returned' = [ fn |-> "headerRowIndex",
                     history |-> HeaderRowIndex(args.rows, HistoryHeaderKeywords) ]
                   @@ returned
    /\ UNCHANGED <<gatewayVars, importVars, args, transferVars, formVars>>

HeaderNext == DetectAssetHeader \/ DetectHistoryHeader
-----------------------------------------------------------------------------
(* services/supabaseService.ts: the translation of records at the boundary.  *)
(* The keys of a record are strings, i.e. sequences of characters; an array  *)
(* of strings is the pair below, which is no string.                         *)

\* the array of the strings of list
Array(list) == << "(array)", list >>
\* Array.isArray(v), for v a string, undefined, null or an array
IsArray(v) == Len(v) = 2 /\ v[1] = "(array)"
Elements(v) == v[2]
\* typeof v === 'string'
IsString(v) == ~IsArray(v) /\ v # Undefined /\ v # Null

LowerLetters == { LowerOf[u] : u \in DOMAIN LowerOf }
UpperOf(c) == CHOOSE u \in DOMAIN LowerOf : LowerOf[u] = c

RECURSIVE SnakeFrom(_, _)
\* the replacements of line 32 from character k on
SnakeFrom(str, k) ==
    IF k > Len(str) THEN <<>>
    ELSE (IF str[k] \in DOMAIN LowerOf THEN << "_", LowerOf[str[k]] >> ELSE << str[k] >>)
         \o SnakeFrom(str, k + 1)

\* lines 31-33: str.replace(/[A-Z]/g, letter => `_${letter.toLowerCase()}`)
toSnakeCase(str) == SnakeFrom(str, 1)

RECURSIVE CamelFrom(_, _)
\* the replacements of lines 36-38 from character k on: a '-' or '_' followed
\* by a lower-case letter becomes the upper-case letter
CamelFrom(str, k) ==
    IF k > Len(str) THEN <<>>
    ELSE IF str[k] \in {"-", "_"} /\ k < Len(str) /\ str[k + 1] \in LowerLetters
    THEN << UpperOf(str[k + 1]) >> \o CamelFrom(str, k + 2)
    ELSE << str[k] >> \o CamelFrom(str, k + 1)

\* lines 35-39
toCamelCase(str) == CamelFrom(str, 1)

\* lines 47 and 79
ListFields ==
    { <<"a","l","l","o","w","e","d","L","o","c","a","t","i","o","n","I","d","s">>, <<"a","l","l","o","w","e","d","S","e","c","t","o","r","I","d","s">>, <<"a","l","l","o","w","e","d","D","i","v","i","s","i","o","n","I","d","s">>, <<"a","l","l","o","w","e","d","M","e","n","u","s">> }

RECURSIVE Join(_)
\* list.join(',')
Join(list) ==
    IF list = <<>> THEN <<>>
    ELSE IF Len(list) = 1 THEN list[1]
    ELSE list[1] \o << "," >> \o Join(Tail(list))

RECURSIVE Split(_)
\* s.split(',')
Split(s) ==
    LET commas == { k \in 1..Len(s) : s[k] = "," } IN
    IF commas = {} THEN << s >>
    ELSE LET first == CHOOSE k \in commas : \A m \in commas : k <= m
         IN  << SubSeq(s, 1, first - 1) >> \o Split(SubSeq(s, first + 1, Len(s)))

\* lines 48-50: the value of a key after the join of a list field
Joined(key, val) ==
    IF IsArray(val) /\ key \in ListFields THEN Join(Elements(val)) ELSE val

\* lines 52-60: the default of an empty value, by column
ColumnDefault(colName, val) ==
    IF IsArray(val) THEN val
    ELSE IF val = Null \/ val = Undefined \/ val = <<>>
    THEN IF colName = <<"n","a","m","e">> THEN <<"U","n","n","a","m","e","d">>
         ELSE IF colName = <<"s","t","a","t","u","s">> THEN <<"A","c","t","i","v","e">>
         ELSE IF colName = <<"c","a","t","e","g","o","r","y">> THEN <<"G","e","n","e","r","a","l">>
         ELSE val
    ELSE val

\* lines 41-71; the keys of record are camelCase, so that no two of them have
\* the same column name
processRecordToSupabase(record, tableName) ==
    LET processed ==
            [ colName \in { toSnakeCase(key) : key \in DOMAIN record } |->
                LET key == CHOOSE k \in DOMAIN record : toSnakeCase(k) = colName
                IN  ColumnDefault(colName, Joined(key, record[key])) ]
    IN  IF tableName = "items" /\ ~Truthy(Get(processed, <<"n","a","m","e">>))
        THEN Put(processed, <<"n","a","m","e">>, <<"U","n","n","a","m","e","d"," ","I","t","e","m">>)
        ELSE IF tableName = "machines" /\ ~Truthy(Get(processed, <<"s","t","a","t","u","s">>))
        THEN Put(processed, <<"s","t","a","t","u","s">>, <<"W","o","r","k","i","n","g">>)
        ELSE processed

\* lines 73-86
processRecordFromSupabase(record) ==
    [ camelKey \in { toCamelCase(key) : key \in DOMAIN record } |->
        LET key == CHOOSE k \in DOMAIN record : toCamelCase(k) = camelKey
            val == record[key]
        IN  IF camelKey \in ListFields /\ IsString(val)
            THEN Array(IF Truthy(val) THEN Split(val) ELSE <<>>)
            ELSE val ]

\* inputs: the mark of a field that a record does not have
Absent == << "(absent)" >>

\* the record of the fields of pairs that are not absent
Fields(pairs) ==
    [ key \in { pairs[n][1] : n \in { m \in 1..Len(pairs) : pairs[m][2] # Absent } } |->
        pairs[CHOOSE n \in 1..Len(pairs) : pairs[n][1] = key][2] ]

\* inputs: the records written to a table
BoundaryRecords(tableName) ==
    IF tableName = "machines"
    THEN { Fields(<< << <<"i","d">>, <<"M","-","1">> >>, << <<"s","t","a","t","u","s">>, s >>, << <<"c","a","t","e","g","o","r","y">>, c >>,
                     << <<"m","a","c","h","i","n","e","L","o","c","a","l","N","o">>, n >> >>) :
             s \in { Absent, Null, Undefined, <<>>, <<"W","o","r","k","i","n","g">>, <<"N","o","t"," ","W","o","r","k","i","n","g">> },
             c \in { Absent, <<>>, <<"P","u","m","p">> },
             n \in { Absent, <<"7">> } }
    ELSE IF tableName = "items"
    THEN { Fields(<< << <<"i","d">>, <<"I","T","-","9">> >>, << <<"n","a","m","e">>, n >>, << <<"c","a","t","e","g","o","r","y">>, c >>,
                     << <<"p","a","r","t","N","u","m","b","e","r">>, p >> >>) :
             n \in { Absent, Null, <<>>, <<"B","o","l","t">> },
             c \in { Absent, Null, <<>>, <<"S","p","a","r","e">> },
             p \in { Absent, <<"P","N","-","5","5">> } }
    ELSE { Fields(<< << <<"u","s","e","r","n","a","m","e">>, <<"u","1">> >>, << <<"a","l","l","o","w","e","d","M","e","n","u","s">>, m >>,
                     << <<"a","l","l","o","w","e","d","L","o","c","a","t","i","o","n","I","d","s">>, l >>, << <<"s","t","a","t","u","s">>, s >> >>) :
             m \in { Absent, Null, <<"a","s","s","e","t","s",",","s","t","o","c","k">>, Array(<<>>), Array(<< <<>> >>),
                     Array(<< <<"a","s","s","e","t","s">> >>), Array(<< <<"a","s","s","e","t","s">>, <<"s","t","o","c","k">> >>),
                     Array(<< <<>>, <<"s","t","o","c","k">> >>) },
             l \in { Absent, Array(<<>>), Array(<< <<"L","-","1">> >>), Array(<< <<"L","-","1">>, <<"L","-","2">> >>) },
             s \in { Absent, <<>> } }

\* inputs: one record and the table it is written to
BoundaryInit ==
    /\ \E tableName \in {"machines", "items", "users"} :
           \E record \in BoundaryRecords(tableName) :
               args = [ fn |-> "processRecord", record |-> record, tableName |-> tableName ]
    /\ returned = [ fn |-> "none" ]

\* lines 121 and 188: the record is translated for the table
ToSupabase ==
    /\ args.fn = "processRecord"
    /\ returned.fn = "none"
    /\ returned' = [ fn |-> "processRecordToSupabase",
                     stored |-> processRecordToSupabase(args.record, args.tableName) ]
    /\ UNCHANGED <<gatewayVars, importVars, args, transferVars, formVars>>

\* line 100: the stored record is read back
FromSupabase ==
    /\ args.fn = "processRecord"
    /\ returned.fn = "processRecordToSupabase"
    /\ returned' = [ fn |-> "processRecordFromSupabase", stored |-> returned.stored,
                     record |-> processRecordFromSupabase(returned.stored) ]
    /\ UNCHANGED <<gatewayVars, importVars, args, transferVars, formVars>>

BoundaryNext == ToSupabase \/ FromSupabase
-----------------------------------------------------------------------------
(* The asset transfer tab (AssetTransferTab, src/unnamed/part_000) *)

\* the tab is not rendered
NoTab ==
    /\ transfers = <<>>
    /\ currentUser = NullObject
    /\ showRejectModal = NullObject
    /\ rejectionReason = <<>>
    /\ lastAction = [ fn |-> "none" ]

\* the largest number of transfers the list holds
MaxTransfers == 2

\* inputs: the users that open the tab
Users ==
    { [ username |-> <<"r","o","o","t">>, role |-> <<"a","d","m","i","n">> ],
      [ username |-> <<"m","o","n","a">>, role |-> <<"m","a","i","n","t","e","n","a","n","c","e","_","m","a","n","a","g","e","r">> ],
      [ username |-> <<"o","m","a","r">>, role |-> <<"m","a","i","n","t","e","n","a","n","c","e","_","e","n","g","i","n","e","e","r">> ] }

\* inputs: what the form of a new transfer holds when it is submitted
TransferForms ==
    { [ status |-> <<"D","r","a","f","t">>, transferType |-> <<"I","n","t","e","r","n","a","l">>,
        effectiveDate |-> <<"2","0","2","6","-","0","1","-","0","1">>, machineId |-> <<"M","-","1">>,
        currentLocationId |-> <<"L","-","1">>, targetLocationId |-> <<"L","-","2">> ],
      [ status |-> <<"D","r","a","f","t">>, transferType |-> <<"E","x","t","e","r","n","a","l"," ","m","a","i","n","t","e","n","a","n","c","e">>,
        effectiveDate |-> <<"2","0","2","6","-","0","1","-","0","1">>, machineId |-> <<"M","-","1">>,
        currentLocationId |-> <<"L","-","1">>, targetLocationId |-> <<"L","-","2">>,
        supplierName |-> <<"A","c","m","e">>, reasonCode |-> <<"o","v","e","r","h","a","u","l">> ] }

\* inputs: the texts typed into the reject dialog
Reasons == { <<>>, <<"l","a","t","e">> }

\* inputs: the second argument of handleStatusChange
Statuses == { <<"D","r","a","f","t">>, <<"S","u","b","m","i","t","t","e","d">>, <<"A","p","p","r","o","v","e","d">>, <<"E","x","e","c","u","t","e","d">>, <<"C","l","o","s","e","d">> }

\* `TR-${Date.now()}` of the n-th transfer: the clock gives each a different id
TransferId(n) == <<"T","R","-">> \o << Digits[n + 1] >>

\* const canApprove = ['admin', 'maintenance_manager'].includes(currentUser.role)
canApprove(user) == user.role \in { <<"a","d","m","i","n">>, <<"m","a","i","n","t","e","n","a","n","c","e","_","m","a","n","a","g","e","r">> }

\* onAddTransfer of the parent: the list with the new transfer
onAddTransfer(list, t) == Append(list, t)

\* onUpdateTransfer of the parent: the list with the transfer of that id replaced
onUpdateTransfer(list, t) ==
    [ k \in 1..Len(list) |-> IF list[k].id = t.id THEN t ELSE list[k] ]

\* the useState values of a tab that is rendered anew for a user
TabInit ==
    /\ transfers = <<>>
    /\ currentUser \in Users
    /\ showRejectModal = NullObject
    /\ rejectionReason = <<>>
    /\ lastAction = [ fn |-> "mount" ]

\* the tab is left and rendered anew, for the same or for another user
Mount ==
    /\ currentUser' \in Users
    /\ showRejectModal' = NullObject
    /\ rejectionReason' = <<>>
    /\ lastAction' = [ fn |-> "mount" ]
    /\ UNCHANGED transfers
    /\ UNCHANGED <<gatewayVars, importVars, callVars, formVars>>

\* the newTransfer of handleSubmit
NewTransfer(form, user, id) ==
    Spread([ id |-> id,
             machineId |-> Get(form, "machineId"),
             currentLocationId |-> Get(form, "currentLocationId"),
             targetLocationId |-> Get(form, "targetLocationId"),
             transferType |-> Get(form, "transferType"),
             requestedBy |-> user.username,
             reasonCode |-> OrElse(Get(form, "reasonCode"), <<>>),
             effectiveDate |-> Get(form, "effectiveDate"),
             status |-> <<"D","r","a","f","t">> ],
           form)

\* handleSubmit, the form of a new transfer is submitted
handleSubmit ==
    /\ Len(transfers) < MaxTransfers
    /\ \E form \in TransferForms :
         transfers' = onAddTransfer(transfers,
                          NewTransfer(form, currentUser, TransferId(Len(transfers) + 1)))
    /\ lastAction' = [ fn |-> "handleSubmit" ]
    /\ UNCHANGED <<currentUser, showRejectModal, rejectionReason>>
    /\ UNCHANGED <<gatewayVars, importVars, callVars, formVars>>

\* handleStatusChange without the check of canApprove
StatusChangeMut(transfer, newStatus, user, now) ==
    IF newStatus = <<"A","p","p","r","o","v","e","d">>
    THEN IF transfer.transferType = <<"E","x","t","e","r","n","a","l"," ","m","a","i","n","t","e","n","a","n","c","e">>
            /\ user.role # <<"m","a","i","n","t","e","n","a","n","c","e","_","m","a","n","a","g","e","r">> /\ user.role # <<"a","d","m","i","n">>
         THEN NullObject
         ELSE Spread(transfer, [ status |-> <<"A","p","p","r","o","v","e","d">>, approvedBy |-> user.username,
                                 approvalTimestamp |-> now ])
    ELSE IF newStatus = <<"E","x","e","c","u","t","e","d">>
    THEN IF transfer.status # <<"A","p","p","r","o","v","e","d">> THEN NullObject
         ELSE Spread(transfer, [ status |-> <<"E","x","e","c","u","t","e","d">> ])
    ELSE IF newStatus = <<"S","u","b","m","i","t","t","e","d">> THEN Spread(transfer, [ status |-> <<"S","u","b","m","i","t","t","e","d">> ])
    ELSE IF newStatus = <<"C","l","o","s","e","d">> THEN Spread(transfer, [ status |-> <<"C","l","o","s","e","d">> ])
    ELSE NullObject

\* the argument handleStatusChange hands to onUpdateTransfer, NullObject when it
\* returns without the call
StatusChange(transfer, newStatus, user, now) ==
    IF newStatus = <<"A","p","p","r","o","v","e","d">>
    THEN IF ~canApprove(user) THEN NullObject
         ELSE IF transfer.transferType = <<"E","x","t","e","r","n","a","l"," ","m","a","i","n","t","e","n","a","n","c","e">>
                 /\ user.role # <<"m","a","i","n","t","e","n","a","n","c","e","_","m","a","n","a","g","e","r">> /\ user.role # <<"a","d","m","i","n">>
         THEN NullObject
         ELSE Spread(transfer, [ status |-> <<"A","p","p","r","o","v","e","d">>, approvedBy |-> user.username,
                                 approvalTimestamp |-> now ])
    ELSE IF newStatus = <<"E","x","e","c","u","t","e","d">>
    THEN IF transfer.status # <<"A","p","p","r","o","v","e","d">> THEN NullObject
         ELSE Spread(transfer, [ status |-> <<"E","x","e","c","u","t","e","d">> ])
    ELSE IF newStatus = <<"S","u","b","m","i","t","t","e","d">> THEN Spread(transfer, [ status |-> <<"S","u","b","m","i","t","t","e","d">> ])
    ELSE IF newStatus = <<"C","l","o","s","e","d">> THEN Spread(transfer, [ status |-> <<"C","l","o","s","e","d">> ])
    ELSE NullObject

\* handleStatusChange(transfer, newStatus)
handleStatusChange(transfer, newStatus) ==
    /\ \E updated \in { StatusChange(transfer, newStatus, currentUser, Clock[1]) } :
         /\ transfers' = IF updated = NullObject THEN transfers
                         ELSE onUpdateTransfer(transfers, updated)
         /\ lastAction' = [ fn |-> "handleStatusChange", newStatus |-> newStatus,
                            updated |-> updated # NullObject ]
    /\ UNCHANGED <<currentUser, showRejectModal, rejectionReason>>
    /\ UNCHANGED <<gatewayVars, importVars, callVars, formVars>>

\* handleReject
handleReject ==
    /\ IF showRejectModal = NullObject \/ ~Truthy(rejectionReason)
       THEN /\ lastAction' = [ fn |-> "handleReject", updated |-> FALSE ]
            /\ UNCHANGED <<transfers, showRejectModal, rejectionReason>>
       ELSE /\ transfers' =
                 onUpdateTransfer(transfers,
                     Spread(showRejectModal, [ status |-> <<"D","r","a","f","t">>,
                                               rejectionReason |-> rejectionReason ]))
            /\ showRejectModal' = NullObject
            /\ rejectionReason' = <<>>
            /\ lastAction' = [ fn |-> "handleReject", updated |-> TRUE ]
    /\ UNCHANGED currentUser
    /\ UNCHANGED <<gatewayVars, importVars, callVars, formVars>>

\* the Submit button of a row, line 134
ClickSubmit ==
    \E k \in 1..Len(transfers) :
        /\ transfers[k].status = <<"D","r","a","f","t">>
        /\ handleStatusChange(transfers[k], <<"S","u","b","m","i","t","t","e","d">>)

\* the Approve button of a row, lines 135-137
ClickApprove ==
    \E k \in 1..Len(transfers) :
        /\ transfers[k].status = <<"S","u","b","m","i","t","t","e","d">> /\ canApprove(currentUser)
        /\ handleStatusChange(transfers[k], <<"A","p","p","r","o","v","e","d">>)

\* the Reject button of a row, lines 135-138: the dialog opens on the row
ClickReject ==
    /\ \E k \in 1..Len(transfers) :
         /\ transfers[k].status = <<"S","u","b","m","i","t","t","e","d">> /\ canApprove(currentUser)
         /\ showRejectModal' = transfers[k]
         /\ lastAction' = [ fn |-> "setShowRejectModal" ]
    /\ UNCHANGED <<transfers, currentUser, rejectionReason>>
    /\ UNCHANGED <<gatewayVars, importVars, callVars, formVars>>

\* the Execute button of a row, line 141
ClickExecute ==
    \E k \in 1..Len(transfers) :
        /\ transfers[k].status = <<"A","p","p","r","o","v","e","d">>
        /\ (currentUser.role = <<"a","d","m","i","n">> \/ currentUser.username = transfers[k].requestedBy)
        /\ handleStatusChange(transfers[k], <<"E","x","e","c","u","t","e","d">>)

\* the Close button of a row, line 142
ClickClose ==
    \E k \in 1..Len(transfers) :
        /\ transfers[k].status = <<"E","x","e","c","u","t","e","d">>
        /\ handleStatusChange(transfers[k], <<"C","l","o","s","e","d">>)

\* the text area of the reject dialog, lines 157-163
TypeReason ==
    /\ showRejectModal # NullObject
    /\ rejectionReason' \in Reasons \ { rejectionReason }
    /\ lastAction' = [ fn |-> "setRejectionReason" ]
    /\ UNCHANGED <<transfers, currentUser, showRejectModal>>
    /\ UNCHANGED <<gatewayVars, importVars, callVars, formVars>>

\* the Cancel button of the reject dialog, line 165
CancelReject ==
    /\ showRejectModal # NullObject
    /\ showRejectModal' = NullObject
    /\ lastAction' = [ fn |-> "setShowRejectModal" ]
    /\ UNCHANGED <<transfers, currentUser, rejectionReason>>
    /\ UNCHANGED <<gatewayVars, importVars, callVars, formVars>>

\* the Confirm Rejection button of the reject dialog, lines 166-170
ConfirmReject ==
    /\ showRejectModal # NullObject
    /\ Truthy(rejectionReason)
    /\ handleReject

\* what a user can do on the rendered tab
TransferNext ==
    \/ Mount \/ handleSubmit \/ ClickSubmit \/ ClickApprove \/ ClickReject
    \/ ClickExecute \/ ClickClose \/ TypeReason \/ CancelReject \/ ConfirmReject

\* handleStatusChange called on a row for any status
RequestStatus ==
    \E k \in 1..Len(transfers), newStatus \in Statuses :
        handleStatusChange(transfers[k], newStatus)

\* the tab rendered with one transfer some user has entered
ApprovalInit ==
    /\ \E form \in TransferForms, user \in Users :
         transfers = << NewTransfer(form, user, TransferId(1)) >>
    /\ currentUser \in Users
    /\ showRejectModal = NullObject
    /\ rejectionReason = <<>>
    /\ lastAction = [ fn |-> "mount" ]

\* the handlers of the tab called by any user, the reject dialog opened by its
\* button
ApprovalNext ==
    \/ Mount \/ RequestStatus \/ ClickReject \/ TypeReason \/ CancelReject
    \/ handleReject

-----------------------------------------------------------------------------
(* The tabs, the selection and the form of AssetManagement.tsx *)

\* the largest number of forms opened in a run
MaxForms == 1

\* the largest number of values set in the controls of a form
MaxInputs == 2

\* inputs: the offset of the local time of the browser from UTC, in minutes
\* (UTC, Asia/Riyadh)
TimeZones == { 0, 180 }

\* the days before a year since the first day of 2024, the first year of the
\* calendar of the model
RECURSIVE DaysBeforeYear(_)
DaysBeforeYear(year) ==
    IF year <= 2024 THEN 0
    ELSE DaysBeforeYear(year - 1) + 337 + DaysIn(year - 1, 2)

\* the days of a year before a month
RECURSIVE DaysBeforeMonth(_, _)
DaysBeforeMonth(year, month) ==
    IF month <= 1 THEN 0
    ELSE DaysBeforeMonth(year, month - 1) + DaysIn(year, month - 1)

\* a point in time: the days since the first day of the calendar and the
\* milliseconds of the day
PointInTime(days, ms) ==
    [ day |-> days + (ms \div 86400000), ms |-> ms % 86400000 ]

\* no point in time: the value of an invalid Date
InvalidDate == [ day |-> -1, ms |-> -1 ]

\* the characters of a text at the places of a pattern are those of the pattern,
\* and digits where the pattern has a 0
Matches(text, pattern) ==
    /\ Len(text) = Len(pattern)
    /\ \A k \in 1..Len(pattern) :
           IF pattern[k] = "0" THEN IsDigit(text[k]) ELSE text[k] = pattern[k]

\* new Date(text) for a text of a datetime-local input (YYYY-MM-DDTHH:MM, read
\* as local time) and for a text of toISOString() (YYYY-MM-DDTHH:MM:SS.sssZ);
\* a day the month lacks is a day of the next month
DateOf(text, tz) ==
    LET local == Matches(text, <<"0","0","0","0","-","0","0","-","0","0","T","0","0",":","0","0">>)
        utc == Matches(text, <<"0","0","0","0","-","0","0","-","0","0","T","0","0",":","0","0",":","0","0",".","0","0","0","Z">>)
    IN  IF ~(local \/ utc) THEN InvalidDate
        ELSE LET year == DecimalValue(SubSeq(text, 1, 4))
                 month == DecimalValue(SubSeq(text, 6, 7))
                 day == DecimalValue(SubSeq(text, 9, 10))
                 hour == DecimalValue(SubSeq(text, 12, 13))
                 minute == DecimalValue(SubSeq(text, 15, 16))
                 second == IF utc THEN DecimalValue(SubSeq(text, 18, 19)) ELSE 0
                 milli == IF utc THEN DecimalValue(SubSeq(text, 21, 23)) ELSE 0
             IN  IF year < 2024 \/ month \notin 1..12 \/ day \notin 1..31
                    \/ hour > 23 \/ minute > 59 \/ second > 59
                 THEN InvalidDate
                 ELSE PointInTime(DaysBeforeYear(year) + DaysBeforeMonth(year, month)
                                      + day - 1,
                                  ((hour * 60 + minute - (IF utc THEN 0 ELSE tz)) * 60
                                      + second) * 1000 + milli)

\* a < b of two Dates; no comparison with an invalid Date holds
Before(a, b) ==
    /\ a # InvalidDate /\ b # InvalidDate
    /\ (a.day < b.day \/ (a.day = b.day /\ a.ms < b.ms))

\* the year of the day-th day of the calendar, counted from 0
RECURSIVE YearOfDay(_, _)
YearOfDay(day, year) ==
    IF day < DaysBeforeYear(year + 1) THEN year ELSE YearOfDay(day, year + 1)

\* the month of the day-th day of a year, counted from 0
RECURSIVE MonthOfDay(_, _, _)
MonthOfDay(day, year, month) ==
    IF day < DaysBeforeMonth(year, month + 1) THEN month
    ELSE MonthOfDay(day, year, month + 1)

\* a number below 1000 in three digits, a number below 10000 in four
ThreeDigits(n) == << Digits[(n \div 100) + 1] >> \o TwoDigits(n % 100)
FourDigits(n) == TwoDigits(n \div 100) \o TwoDigits(n % 100)

\* Date.prototype.toISOString() of a valid Date
IsoText(t) ==
    LET year == YearOfDay(t.day, 2024)
        inYear == t.day - DaysBeforeYear(year)
        month == MonthOfDay(inYear, year, 1)
        day == inYear - DaysBeforeMonth(year, month) + 1
        second == t.ms \div 1000
    IN  FourDigits(year) \o << "-" >> \o TwoDigits(month) \o << "-" >> \o TwoDigits(day)
        \o << "T" >> \o TwoDigits(second \div 3600) \o << ":" >>
        \o TwoDigits((second \div 60) % 60) \o << ":" >> \o TwoDigits(second % 60)
        \o << "." >> \o ThreeDigits(t.ms % 1000) \o << "Z" >>

\* the decimal digits of a number that is not negative
RECURSIVE DecimalText(_)
DecimalText(n) ==
    IF n < 10 THEN << Digits[n + 1] >> ELSE DecimalText(n \div 10) \o << Digits[(n % 10) + 1] >>

\* ((end - start) / (1000 * 60 * 60)).toFixed(2) of line 502, for end after
\* start; the times of the model are whole minutes, so that no quotient lies
\* halfway between two hundredths
HoursText(start, end) ==
    LET hundredths == (end.day - start.day) * 2400
                          + ((end.ms - start.ms + 18000) \div 36000)
    IN  DecimalText(hundredths \div 100) \o << "." >> \o TwoDigits(hundredths % 100)

\* the length of the longest prefix of a text that is made of digits
RECURSIVE DigitPrefix(_)
DigitPrefix(text) ==
    IF text = <<>> \/ ~IsDigit(text[1]) THEN 0 ELSE 1 + DigitPrefix(Tail(text))

\* 10 to the power of n
RECURSIVE PowerOfTen(_)
PowerOfTen(n) == IF n = 0 THEN 1 ELSE 10 * PowerOfTen(n - 1)

\* parseFloat(text) of line 548, in whole hours and milliseconds: white space
\* before the number is skipped, the longest prefix of the form [+-]digits[.digits]
\* is read, and a text without such a prefix gives NaN.  Places after the fifth
\* behind the point are not read, and no exponent is.
ParseFloat(text) ==
    LET body == Trim(text)
        signed == body # <<>> /\ body[1] \in {"+", "-"}
        rest == IF signed THEN Tail(body) ELSE body
        whole == DigitPrefix(rest)
        afterWhole == SubSeq(rest, whole + 1, Len(rest))
        places == IF afterWhole # <<>> /\ afterWhole[1] = "."
                  THEN Min(DigitPrefix(Tail(afterWhole)), 5) ELSE 0
    IN  IF whole + places = 0 THEN [ nan |-> TRUE, hours |-> 0, ms |-> 0 ]
        ELSE LET hours == IF whole = 0 THEN 0 ELSE DecimalValue(SubSeq(rest, 1, whole))
                 ms == IF places = 0 THEN 0
                       ELSE DecimalValue(SubSeq(afterWhole, 2, places + 1)) * 36
                                * PowerOfTen(5 - places)
                 sign == IF signed /\ body[1] = "-" THEN -1 ELSE 1
             IN  [ nan |-> FALSE, hours |-> sign * hours, ms |-> sign * ms ]

\* new Date(start.getTime() + durationHours * 60 * 60 * 1000) of line 550
Later(start, duration) ==
    PointInTime(start.day + (duration.hours \div 24),
                start.ms + (duration.hours % 24) * 3600000 + duration.ms)

\* (e - s) / (1000 * 60) of line 562, a number of minutes; 0 stands for the NaN
\* of an invalid Date, which like 0 is not greater than 0; the times of the
\* model are whole minutes apart
MinutesBetween(s, e) ==
    IF s = InvalidDate \/ e = InvalidDate THEN 0
    ELSE (e.day - s.day) * 1440 + ((e.ms - s.ms) \div 60000)

\* inputs: Date.now() when the n-th form is opened, a millisecond after the
\* one before; it is the time of Clock[2]
DateNow(n) == <<"1","7","6","7","3","1","2","0","0","0","0","0">> \o << Digits[n + 1] >>

\* `BD-${Date.now()}` of line 510
BreakdownId(n) == <<"B","D","-">> \o DateNow(n)

\* `M-${Date.now().toString().slice(-6)}` of line 483
AssetId(n) == <<"M","-">> \o SubSeq(DateNow(n), Len(DateNow(n)) - 5, Len(DateNow(n)))

\* `BOM-${Date.now()}` of line 490
BomId(n) == <<"B","O","M","-">> \o DateNow(n)

\* onAddMachine, onAddBOM and onAddBreakdown of the parent: the list with the
\* new entity
Added(list, e) == Append(list, e)

\* onUpdateMachine, onUpdateBOM and onUpdateBreakdown of the parent: the list
\* with the entity of that id replaced
Updated(list, e) == [ k \in 1..Len(list) |-> IF list[k].id = e.id THEN e ELSE list[k] ]

\* onDeleteMachines and onDeleteBOMs of the parent: the list without the
\* entities of those ids
Deleted(list, ids) == SelectSeq(list, LAMBDA e : e.id \notin ids)

\* the ids of the entities of a list
Ids(list) == { list[k].id : k \in 1..Len(list) }

\* the useState values of the filters when the component is mounted in a
\* browser that has saved a syncConfig, lines 60-79
NoFilter(config) ==
    /\ searchTerm = <<>>
    /\ filterLocationId = <<>>
    /\ filterStatus = <<"A","l","l">>
    /\ filterMachineName = <<>>
    /\ bomFilterMachine = <<>>
    /\ bomFilterModel = <<>>
    /\ expandedAssetId = Null
    /\ syncConfig = config

\* the useState values of the component when it is mounted, lines 59-86
Mounted(config) ==
    /\ activeTab = "assets"
    /\ showForm = FALSE
    /\ isEditing = FALSE
    /\ formData = EmptyObject
    /\ selectedIds = {}
    /\ NoFilter(config)
    /\ timeZone = 0
    /\ forms = 0
    /\ typed = 0
    /\ calls = <<>>
    /\ issuePrefill = Null

NoForm == Mounted(SavedConfig)

\* the component is mounted in a browser of one of the time zones
FormInit ==
    /\ activeTab = "assets"
    /\ showForm = FALSE
    /\ isEditing = FALSE
    /\ formData = EmptyObject
    /\ selectedIds = {}
    /\ NoFilter(SavedConfig)
    /\ timeZone \in TimeZones
    /\ forms = 0
    /\ typed = 0
    /\ calls = <<>>
    /\ issuePrefill = Null

\* machines.find(m => m.id === id): its position, 0 for none
MachineIndex(id) == FindIndex(machines, LAMBDA m : m.id = id)

\* selectedMachine?.key
MachineField(sel, key) == IF sel = 0 THEN Undefined ELSE Get(machines[sel], key)

\* inputs: the values of the location filter (lines 796 and 949), the options
\* the locations give
LocationFilters == { <<>>, <<"L","-","1">> }

\* inputs: the texts of the search field (line 780)
SearchTerms == { <<>>, <<"D","R","I","L","L">> }

\* inputs: the options of the status filter of the breakdowns tab (line 950)
StatusFilters == { <<"A","l","l">>, <<"O","p","e","n">>, <<"C","l","o","s","e","d">> }

\* assetFilterStatus and filterLocalNo of lines 67-68: no control of the
\* component calls their setters, so they keep their useState values
assetFilterStatus == <<"A","l","l">>
filterLocalNo == <<>>

\* selectedFilterLocation of line 630: its position in locations, 0 for none
selectedFilterLocation == FindIndex(locations, LAMBDA l : l.id = filterLocationId)

\* (value || '').toLowerCase().includes(searchTerm.toLowerCase())
MatchesSearch(value) ==
    Includes(ToLowerCase(OrElse(value, <<>>)), ToLowerCase(searchTerm))

\* the location filter of filteredMachines (line 661) and of filteredBreakdowns
\* (line 686)
InLocation(e) ==
    \/ ~Truthy(filterLocationId)
    \/ Get(e, "locationId") = filterLocationId
    \/ /\ selectedFilterLocation # 0
       /\ Get(e, "locationId") = locations[selectedFilterLocation].name

\* the filter of filteredMachines, lines 654-665
MachineShown(m) ==
    /\ \E key \in {"category", "id", "brand", "chassisNo", "machineLocalNo", "mainGroup"} :
           MatchesSearch(Get(m, key))
    /\ InLocation(m)
    /\ (assetFilterStatus = <<"A","l","l">> \/ Get(m, "status") = assetFilterStatus)
    /\ (~Truthy(filterLocalNo) \/ Get(m, "machineLocalNo") = filterLocalNo)
    /\ (~Truthy(filterMachineName) \/ Get(m, "category") = filterMachineName)

filteredMachines == SelectSeq(machines, MachineShown)

\* itemsMap.get(id)?.key of lines 104-108 and 668: the field of the last item
\* of that id, Undefined when there is none
ItemField(id, key) ==
    LET found == { k \in 1..Len(items) : items[k].id = id }
    IN  IF found = {} THEN Undefined
        ELSE Get(items[CHOOSE k \in found : \A m \in found : m <= k], key)

\* the filter of filteredBOMs, lines 667-680
BomShown(b) ==
    /\ \/ \E key \in {"machineCategory", "modelNo", "itemId"} : MatchesSearch(Get(b, key))
       \/ \E key \in {"name", "partNumber"} :
              MatchesSearch(ItemField(Get(b, "itemId"), key))
    /\ (Truthy(bomFilterMachine) => Get(b, "machineCategory") = bomFilterMachine)
    /\ (Truthy(bomFilterModel) => Get(b, "modelNo") = bomFilterModel)

\* Array.prototype.sort by rising (sortOrder || 0), line 681; the sort is stable
RECURSIVE SortedByOrder(_)
SortedByOrder(list) ==
    IF list = <<>> THEN <<>>
    ELSE LET first == CHOOSE k \in 1..Len(list) :
                          \A m \in 1..Len(list) :
                              \/ NumberOrZero(list[k], "sortOrder")
                                     < NumberOrZero(list[m], "sortOrder")
                              \/ /\ NumberOrZero(list[k], "sortOrder")
                                        = NumberOrZero(list[m], "sortOrder")
                                 /\ k <= m
         IN  << list[first] >> \o SortedByOrder(Remove(list, first))

\* filteredBOMs of lines 667-681
filteredBOMs == SortedByOrder(SelectSeq(bomRecords, BomShown))

\* the filter of filteredBreakdowns, lines 683-688; the handlers read which
\* breakdowns are shown, not their order
BreakdownShown(b) ==
    /\ \E key \in {"machineName", "machineLocalNo", "id"} : MatchesSearch(Get(b, key))
    /\ InLocation(b)
    /\ (filterStatus = <<"A","l","l">> \/ Get(b, "status") = filterStatus)

\* currentViewData of line 730
currentViewData ==
    IF activeTab = "assets" THEN filteredMachines
    ELSE IF activeTab = "bom" THEN filteredBOMs
    ELSE <<>>

\* machineNameOptions of line 710, as a set
machineNameOptions ==
    { machines[k].category : k \in { m \in 1..Len(machines) :
                                       Truthy(Get(machines[m], "category")) } }

\* bomModelOptions of lines 719-724, as a set
bomModelOptions ==
    IF ~Truthy(bomFilterMachine) THEN {}
    ELSE { machines[k].modelNo :
             k \in { m \in 1..Len(machines) :
                       /\ Get(machines[m], "category") = bomFilterMachine
                       /\ Truthy(Get(machines[m], "modelNo")) } }

\* the controls of the filters leave the lists, the tab and the form alone; the
\* effect of lines 99-102 empties the selection when a filter changes
FilterFrame ==
    /\ selectedIds' = {}
    /\ calls' = <<>>
    /\ UNCHANGED <<machines, breakdowns, bomRecords, activeTab, showForm, isEditing,
                   formData, forms, typed, expandedAssetId, syncConfig>>
    /\ ViewFrame

\* the location filter of the assets and the breakdowns tab, lines 796 and 949
setFilterLocationId(value) ==
    /\ activeTab \in {"assets", "breakdowns"}
    /\ value # filterLocationId
    /\ filterLocationId' = value
    /\ UNCHANGED <<searchTerm, filterStatus, filterMachineName, bomFilterMachine,
                   bomFilterModel>>
    /\ FilterFrame

\* the search field of the toolbar, line 780
setSearchTerm(value) ==
    /\ value # searchTerm
    /\ searchTerm' = value
    /\ UNCHANGED <<filterLocationId, filterStatus, filterMachineName, bomFilterMachine,
                   bomFilterModel>>
    /\ FilterFrame

\* the machine name filter of the assets tab, line 797
setFilterMachineName(value) ==
    /\ activeTab = "assets"
    /\ value \in machineNameOptions \cup { <<>> }
    /\ value # filterMachineName
    /\ filterMachineName' = value
    /\ UNCHANGED <<searchTerm, filterLocationId, filterStatus, bomFilterMachine,
                   bomFilterModel>>
    /\ FilterFrame

\* the status filter of the breakdowns tab, line 950
setFilterStatus(value) ==
    /\ activeTab = "breakdowns"
    /\ value # filterStatus
    /\ filterStatus' = value
    /\ UNCHANGED <<searchTerm, filterLocationId, filterMachineName, bomFilterMachine,
                   bomFilterModel>>
    /\ FilterFrame

\* the machine filter of the bom tab, line 887: it sets the machine and clears
\* the model
SetBomFilterMachine(v) ==
    /\ activeTab = "bom"
    /\ v \in machineNameOptions \cup { <<>> }
    /\ v # bomFilterMachine \/ bomFilterModel # <<>>
    /\ bomFilterMachine' = v
    /\ bomFilterModel' = <<>>
    /\ UNCHANGED <<searchTerm, filterLocationId, filterStatus, filterMachineName>>
    /\ FilterFrame

\* the model filter of the bom tab, line 891, disabled while no machine is
\* chosen
setBomFilterModel(value) ==
    /\ activeTab = "bom"
    /\ Truthy(bomFilterMachine)
    /\ value \in bomModelOptions \cup { <<>> }
    /\ value # bomFilterModel
    /\ bomFilterModel' = value
    /\ UNCHANGED <<searchTerm, filterLocationId, filterStatus, filterMachineName,
                   bomFilterMachine>>
    /\ FilterFrame

\* the button "Show BOM" or "Hide BOM" of the row of the k-th machine, line 826
setExpandedAssetId(k) ==
    /\ activeTab = "assets"
    /\ MachineShown(machines[k])
    /\ expandedAssetId' = IF expandedAssetId = machines[k].id THEN Null
                          ELSE machines[k].id
    /\ calls' = <<>>
    /\ UNCHANGED <<machines, breakdowns, bomRecords, activeTab, showForm, isEditing,
                   formData, selectedIds, filterLocationId, forms, typed>>
    /\ UNCHANGED <<searchTerm, filterStatus, filterMachineName, bomFilterMachine,
                   bomFilterModel, syncConfig>>
    /\ ViewFrame

\* the button "Manage in BOM Tab" of the expanded row of the k-th machine, line
\* 838: the bom tab with the filters of that machine; the effects of lines
\* 90-102 empty the selection
ManageInBomTab(k) ==
    /\ activeTab = "assets"
    /\ MachineShown(machines[k])
    /\ expandedAssetId = machines[k].id
    /\ activeTab' = "bom"
    /\ bomFilterMachine' = OrElse(Get(machines[k], "category"), <<>>)
    /\ bomFilterModel' = OrElse(Get(machines[k], "modelNo"), <<>>)
    /\ selectedIds' = {}
    /\ calls' = <<>>
    /\ UNCHANGED <<machines, breakdowns, bomRecords, showForm, isEditing, formData,
                   filterLocationId, forms, typed>>
    /\ UNCHANGED <<searchTerm, filterStatus, filterMachineName, expandedAssetId,
                   syncConfig>>
    /\ ViewFrame

\* the handlers of the selection leave the lists and the form alone
SelectionFrame ==
    /\ calls' = <<>>
    /\ UNCHANGED <<machines, breakdowns, bomRecords, activeTab, showForm, isEditing,
                   formData, filterLocationId, forms, typed>>
    /\ FormFrame

\* the checkbox of a row, lines 821 and 922
ToggleSelected(id) ==
    /\ id \in Ids(currentViewData)
    /\ selectedIds' = IF id \in selectedIds THEN selectedIds \ {id}
                      ELSE selectedIds \cup {id}
    /\ SelectionFrame

\* handleSelectAllGlobal, lines 732-735, of the button of line 800
handleSelectAllGlobal ==
    /\ activeTab = "assets"
    /\ Cardinality(selectedIds) < Len(currentViewData)
    /\ selectedIds' = Ids(currentViewData)
    /\ SelectionFrame

\* handleSelectAllPage, lines 737-742, of the checkbox of lines 810 and 904;
\* the lists of the model fill one page
handleSelectAllPage ==
    /\ activeTab \in {"assets", "bom"}
    /\ LET pageItems == Ids(currentViewData)
           allSelected == pageItems \subseteq selectedIds
       IN  selectedIds' = IF allSelected THEN selectedIds \ pageItems
                          ELSE selectedIds \cup pageItems
    /\ SelectionFrame

\* handleBulkDelete, lines 472-480, of the buttons of lines 799 and 894; the
\* user confirms or does not
handleBulkDelete(confirmed) ==
    /\ activeTab \in {"assets", "bom"}
    /\ selectedIds # {}
    /\ IF confirmed
       THEN /\ machines' = IF activeTab = "assets" THEN Deleted(machines, selectedIds)
                           ELSE machines
            /\ bomRecords' = IF activeTab = "bom" THEN Deleted(bomRecords, selectedIds)
                             ELSE bomRecords
            /\ selectedIds' = {}
            /\ calls' = IF activeTab = "assets" THEN << "onDeleteMachines" >>
                        ELSE << "onDeleteBOMs" >>
       ELSE /\ calls' = <<>>
            /\ UNCHANGED <<machines, bomRecords, selectedIds>>
    /\ UNCHANGED <<breakdowns, activeTab, showForm, isEditing, formData,
                   filterLocationId, forms, typed>>
    /\ FormFrame

\* the handlers that open the form leave the lists and the tab alone
OpenFrame ==
    /\ showForm' = TRUE
    /\ forms' = forms + 1
    /\ typed' = 0
    /\ calls' = <<>>
    /\ UNCHANGED <<machines, breakdowns, bomRecords, activeTab, selectedIds,
                   filterLocationId>>
    /\ FormFrame

\* openAssetForm, lines 482-487: the button "+ New" (line 801) for k = 0, the
\* Edit button of the k-th machine otherwise (line 829)
openAssetForm(k) ==
    /\ forms < MaxForms
    /\ activeTab = "assets"
    /\ k # 0 => MachineShown(machines[k])
    /\ formData' = IF k = 0 THEN [ id |-> AssetId(forms + 1), status |-> <<"W","o","r","k","i","n","g">> ]
                   ELSE machines[k]
    /\ isEditing' = (k # 0)
    /\ OpenFrame

\* openBOMForm, lines 489-493: the button "+ New Part" (line 895) for k = 0, the
\* Edit button of the k-th record otherwise (line 931)
openBOMForm(k) ==
    /\ forms < MaxForms
    /\ activeTab = "bom"
    /\ k # 0 => BomShown(bomRecords[k])
    /\ formData' = IF k = 0 THEN [ id |-> BomId(forms + 1), quantity |-> 1 ]
                   ELSE bomRecords[k]
    /\ isEditing' = (k # 0)
    /\ OpenFrame

\* the form data openBreakdownForm() sets for a new breakdown, the n-th form
\* of the run
NewBreakdownForm(n) ==
    [ id |-> BreakdownId(n), startTime |-> SubSeq(Clock[2], 1, 16),
      status |-> <<"O","p","e","n">>, failureType |-> <<"M","e","c","h","a","n","i","c","a","l">>, operatorName |-> <<>>,
      machineId |-> <<>>, machineName |-> <<>>, machineLocalNo |-> <<>>,
      locationId |-> OrElse(filterLocationId, <<>>),
      sectorId |-> <<>>, divisionId |-> <<>>, duration |-> <<>> ]

\* the form data openBreakdownForm(bd) sets for the breakdown bd
EditBreakdownForm(bd) ==
    Spread(bd,
           [ duration |->
                 IF Truthy(Get(bd, "startTime")) /\ Truthy(Get(bd, "endTime"))
                    /\ Before(DateOf(bd.startTime, timeZone), DateOf(bd.endTime, timeZone))
                 THEN HoursText(DateOf(bd.startTime, timeZone),
                                DateOf(bd.endTime, timeZone))
                 ELSE <<>>,
             machineLocalNo |->
                 OrElse(Get(bd, "machineLocalNo"),
                        OrElse(MachineField(MachineIndex(Get(bd, "machineId")),
                                            "machineLocalNo"), <<>>)) ])

\* openBreakdownForm, lines 495-526: the button "+ New Breakdown" (line 951) for
\* k = 0, the Edit button of the k-th breakdown otherwise (line 966)
openBreakdownForm(k) ==
    /\ forms < MaxForms
    /\ activeTab = "breakdowns"
    /\ k # 0 => BreakdownShown(breakdowns[k])
    /\ formData' = IF k = 0 THEN NewBreakdownForm(forms + 1)
                   ELSE EditBreakdownForm(breakdowns[k])
    /\ isEditing' = (k # 0)
    /\ OpenFrame

\* the part of the form that is rendered, lines 1015, 1102 and 1126
FormPart == IF activeTab \in {"assets", "bom"} THEN activeTab ELSE "breakdowns"

\* inputs: the values the user sets in the controls of a part of the form, each
\* with the field of its control (lines 1020-1140)
FormInputs(part) ==
    IF part = "assets"
    THEN { << "category", <<"C","r","a","n","e">> >>, << "status", <<"W","o","r","k","i","n","g">> >> }
    ELSE IF part = "bom"
    THEN { << "quantity", <<"4">> >>, << "itemId", <<"I","T","-","1","0">> >> }
    ELSE { << "status", <<"O","p","e","n">> >>, << "status", <<"C","l","o","s","e","d">> >>,
           << "endTime", <<"2","0","2","6","-","0","1","-","0","3","T","0","0",":","0","0">> >>, << "endTime", <<"2","0","2","6","-","0","1","-","0","1","T","0","0",":","0","0">> >>,
           << "duration", <<"2","4">> >> }

\* the handlers of the controls leave the lists and the tab alone
ControlFrame ==
    /\ typed < MaxInputs
    /\ typed' = typed + 1
    /\ calls' = <<>>
    /\ UNCHANGED <<machines, breakdowns, bomRecords, activeTab, showForm, isEditing,
                   selectedIds, filterLocationId, forms>>
    /\ FormFrame

\* onChange of a control of the form: setFormData({ ...formData, [key]: value })
SetFormField(key, value) ==
    /\ showForm
    /\ << key, value >> \in FormInputs(FormPart)
    /\ formData' = Put(formData, key, value)
    /\ ControlFrame

\* onChange of the location of an asset, line 1063; the control is disabled in
\* the form of an existing asset (line 1064)
SetAssetLocation(value) ==
    /\ showForm /\ FormPart = "assets" /\ ~isEditing
    /\ formData' = Spread(formData, [ locationId |-> value, sectorId |-> <<>>,
                                       divisionId |-> <<>> ])
    /\ ControlFrame

\* handleAssetSectorChange, lines 608-610
handleAssetSectorChange(val) ==
    /\ showForm /\ FormPart = "assets"
    /\ formData' = Spread(formData, [ sectorId |-> val, divisionId |-> <<>> ])
    /\ ControlFrame

\* handleAssetDivisionChange, lines 612-628, with the orgStructures the prop has
\* by default (line 57), none
handleAssetDivisionChange(val) ==
    /\ showForm /\ FormPart = "assets"
    /\ formData' = Spread(formData, [ divisionId |-> IF ~Truthy(val) THEN <<>> ELSE val ])
    /\ ControlFrame

\* onChange of the machine name of a BOM record, line 1104
SetMachineCategory(value) ==
    /\ showForm /\ FormPart = "bom"
    /\ formData' = Spread(formData, [ machineCategory |-> value, modelNo |-> <<>> ])
    /\ ControlFrame

\* the close button and the Cancel button of the form, lines 1012 and 1144
CloseForm ==
    /\ showForm
    /\ showForm' = FALSE
    /\ calls' = <<>>
    /\ UNCHANGED <<machines, breakdowns, bomRecords, activeTab, isEditing, formData,
                   selectedIds, filterLocationId, forms, typed>>
    /\ FormFrame

\* derivedSectorId of lines 592-596: the sector of the form, or else the sector
\* of the division of the form
derivedSectorId(data) ==
    LET div == FindIndex(divisions, LAMBDA d : d.id = Get(data, "divisionId"))
    IN  IF ~Truthy(Get(data, "sectorId")) /\ Truthy(Get(data, "divisionId")) /\ div # 0
        THEN Get(divisions[div], "sectorId")
        ELSE Get(data, "sectorId")

\* what lines 597-603 save under wf_issue_prefill; JSON.stringify leaves out the
\* keys whose value is undefined
IssuePrefill(data) ==
    LET prefill == [ locationId |-> Get(data, "locationId"),
                     sectorId |-> derivedSectorId(data),
                     divisionId |-> Get(data, "divisionId"),
                     machineId |-> Get(data, "machineId"),
                     maintenancePlanId |-> <<"M","P","-","0","0","3">> ]
    IN  [ key \in { k \in DOMAIN prefill : prefill[k] # Undefined } |-> prefill[key] ]

\* handleMaterialRequest, lines 587-606, of the button of line 1146: without a
\* location or a machine the alert of line 589 is all that happens; with both
\* the prefill is saved, the form is closed and the setCurrentView prop is
\* called with 'issue-form'
handleMaterialRequest ==
    /\ showForm /\ activeTab = "breakdowns"
    /\ IF ~Truthy(Get(formData, "locationId")) \/ ~Truthy(Get(formData, "machineId"))
       THEN /\ calls' = <<>>
            /\ UNCHANGED <<showForm, issuePrefill>>
       ELSE /\ issuePrefill' = IssuePrefill(formData)
            /\ showForm' = FALSE
            /\ calls' = <<"setCurrentView">>
    /\ UNCHANGED <<machines, breakdowns, bomRecords, activeTab, isEditing, formData,
                   selectedIds, filterLocationId, forms, typed>>
    /\ StoreFrame /\ UNCHANGED filterVars

\* the RangeError of toISOString() on an invalid Date
Thrown == [ thrown |-> TRUE ]

\* the form data after lines 546-553: an end time computed from the start time
\* and the duration
WithEndTime(data, tz) ==
    IF Truthy(Get(data, "startTime")) /\ Truthy(Get(data, "duration"))
       /\ ~Truthy(Get(data, "endTime")) /\ ~ParseFloat(data.duration).nan
    THEN IF DateOf(data.startTime, tz) = InvalidDate THEN Thrown
         ELSE Put(data, "endTime",
                  IsoText(Later(DateOf(data.startTime, tz), ParseFloat(data.duration))))
    ELSE data

\* durationMinutes of lines 558-563
DurationMinutes(data, tz) ==
    IF Truthy(Get(data, "startTime")) /\ Truthy(Get(data, "endTime"))
    THEN MinutesBetween(DateOf(data.startTime, tz), DateOf(data.endTime, tz))
    ELSE 0

\* const { duration, ...cleanData } = formData
CleanData(data) == [ k \in (DOMAIN data) \ {"duration"} |-> data[k] ]

\* finalRecord of lines 565-573 for the form data after lines 546-553
FinalRecord(data, sel, tz) ==
    Spread(CleanData(data),
           [ machineName |->
                 OrElse(MachineField(sel, "category"),
                        OrElse(Get(data, "machineName"), <<"U","n","k","n","o","w","n">>)),
             locationId |->
                 OrElse(Get(data, "locationId"),
                        OrElse(MachineField(sel, "locationId"), <<"U","n","k","n","o","w","n">>)),
             sectorId |->
                 OrElse(Get(data, "sectorId"),
                        OrElse(MachineField(sel, "sectorId"), <<>>)),
             divisionId |->
                 OrElse(Get(data, "divisionId"),
                        OrElse(MachineField(sel, "divisionId"), <<>>)),
             machineLocalNo |->
                 OrElse(Get(data, "machineLocalNo"),
                        OrElse(MachineField(sel, "machineLocalNo"), <<>>)),
             durationMinutes |->
                 IF DurationMinutes(data, tz) > 0 THEN DurationMinutes(data, tz)
                 ELSE Undefined ])

\* the status lines 577-582 give the selected machine, Undefined for none
NewStatus(sel, finalRecord) ==
    IF sel # 0 /\ Truthy(Get(finalRecord, "status"))
    THEN LET newStatus ==
                 IF finalRecord.status = <<"O","p","e","n">> THEN <<"N","o","t"," ","W","o","r","k","i","n","g">> ELSE <<"W","o","r","k","i","n","g">>
         IN IF Get(machines[sel], "status") # newStatus THEN newStatus ELSE Undefined
    ELSE Undefined

\* the end time of the form is earlier than its start time, lines 538-545
EndsBeforeStart(data, tz) ==
    /\ Truthy(Get(data, "startTime")) /\ Truthy(Get(data, "endTime"))
    /\ Before(DateOf(data.endTime, tz), DateOf(data.startTime, tz))

\* the form can be submitted: the inputs that are required have a value.  The
\* name of an asset (line 1020) shows formData.category || '' and is empty
\* without a category; the quantity of a BOM record (line 1115) shows
\* formData.quantity || 1 and is never empty
RequiredFilled ==
    FormPart = "assets" => Truthy(Get(formData, "category"))

\* the branches of handleFormSubmit for the assets and the bom tab, lines
\* 531-536, then line 584
SubmitAsset ==
    /\ activeTab = "assets"
    /\ machines' =
           IF isEditing THEN Updated(machines, formData)
           ELSE Added(machines, Put(formData, "id",
                                    OrElse(Get(formData, "id"), <<"M","-">> \o DateNow(forms))))
    /\ calls' = IF isEditing THEN << "onUpdateMachine" >> ELSE << "onAddMachine" >>
    /\ showForm' = FALSE
    /\ UNCHANGED <<breakdowns, bomRecords, formData>>

SubmitBOM ==
    /\ activeTab = "bom"
    /\ bomRecords' =
           IF isEditing THEN Updated(bomRecords, formData)
           ELSE Added(bomRecords, Put(formData, "id",
                                      OrElse(Get(formData, "id"), BomId(forms))))
    /\ calls' = IF isEditing THEN << "onUpdateBOM" >> ELSE << "onAddBOM" >>
    /\ showForm' = FALSE
    /\ UNCHANGED <<machines, breakdowns, formData>>

\* the branch of handleFormSubmit for the other tabs, lines 537-583, then line
\* 584: the alert of line 542 and the RangeError of line 551 leave the form
\* open; line 551 writes the end time into the form data
SubmitBreakdown ==
    /\ activeTab \notin {"assets", "bom"}
    /\ IF EndsBeforeStart(formData, timeZone) \/ WithEndTime(formData, timeZone) = Thrown
       THEN /\ calls' = <<>>
            /\ UNCHANGED <<machines, breakdowns, formData, showForm>>
       ELSE \E data \in { WithEndTime(formData, timeZone) } :
            \E sel \in { MachineIndex(Get(data, "machineId")) } :
            \E finalRecord \in { FinalRecord(data, sel, timeZone) } :
            \E newStatus \in { NewStatus(sel, finalRecord) } :
              /\ formData' = data
              /\ breakdowns' = IF isEditing THEN Updated(breakdowns, finalRecord)
                               ELSE Added(breakdowns, finalRecord)
              /\ machines' = IF newStatus = Undefined THEN machines
                             ELSE Updated(machines,
                                          Spread(machines[sel], [ status |-> newStatus ]))
              /\ calls' = << IF isEditing THEN "onUpdateBreakdown" ELSE "onAddBreakdown" >>
                          \o (IF newStatus = Undefined THEN <<>>
                              ELSE << "onUpdateMachine" >>)
              /\ showForm' = FALSE
    /\ UNCHANGED bomRecords

\* handleFormSubmit, lines 528-585, of the form of line 1014
handleFormSubmit ==
    /\ showForm
    /\ RequiredFilled
    /\ (SubmitAsset \/ SubmitBOM \/ SubmitBreakdown)
    /\ UNCHANGED <<activeTab, isEditing, selectedIds, filterLocationId, forms, typed>>
    /\ FormFrame

\* the breakdowns prop with two open breakdowns of the pump, the second one
\* recorded with its location
TwoBreakdowns ==
    OneBreakdown \o
    << [ id |-> <<"B","D","-","2">>, machineId |-> <<"M","-","1">>, machineName |-> <<"P","u","m","p">>,
         locationId |-> <<"L","-","1">>, status |-> <<"O","p","e","n">>, failureType |-> <<"N","o","i","s","e">>,
         startTime |-> <<"2","0","2","6","-","0","1","-","0","2","T","0","0",":","0","0",":","0","0",".","0","0","0","Z">> ] >>

\* what a user can do on the tabs and in the form
BreakdownNext ==
    \/ \E tab \in AssetActiveTabs : setActiveTab(tab)
    \/ \E value \in LocationFilters : setFilterLocationId(value)
    \/ \E id \in Ids(currentViewData) : ToggleSelected(id)
    \/ handleSelectAllGlobal
    \/ handleSelectAllPage
    \/ \E confirmed \in BOOLEAN : handleBulkDelete(confirmed)
    \/ \E k \in 0..Len(machines) : openAssetForm(k)
    \/ \E k \in 0..Len(bomRecords) : openBOMForm(k)
    \/ \E k \in 0..Len(breakdowns) : openBreakdownForm(k)
    \/ \E input \in FormInputs(FormPart) : SetFormField(input[1], input[2])
    \/ \E value \in LocationFilters : SetAssetLocation(value)
    \/ \E val \in { <<>>, <<"S","-","1">> } : handleAssetSectorChange(val)
    \/ \E val \in { <<>>, <<"D","-","1">> } : handleAssetDivisionChange(val)
    \/ \E value \in { <<"P","u","m","p">> } : SetMachineCategory(value)
    \/ CloseForm
    \/ handleMaterialRequest
    \/ handleFormSubmit

\* the machines prop with the pump and a drill whose location is given by
\* its name
TwoMachines ==
    OneMachine \o
    << [ id |-> <<"M","-","2">>, category |-> <<"D","r","i","l","l">>, modelNo |-> <<"X","1">>,
         status |-> <<"W","o","r","k","i","n","g">>, locationId |-> <<"W","a","r","e","h","o","u","s","e"," ","A">> ] >>

\* the bomRecords prop with a part of the pump and, before it in the order of
\* the sheet, a part of the drill
TwoBoms ==
    << [ id |-> <<"B","-","1">>, machineCategory |-> <<"P","u","m","p">>, modelNo |-> <<>>,
         itemId |-> <<"I","T","-","9">>, quantity |-> 1, sortOrder |-> 2 ],
       [ id |-> <<"B","-","2">>, machineCategory |-> <<"D","r","i","l","l">>, modelNo |-> <<"X","1">>,
         itemId |-> <<"I","T","-","1","0">>, quantity |-> 2, sortOrder |-> 1 ] >>

\* what a user can do on the tabs with the filters and the selection
FilterNext ==
    \/ \E tab \in AssetActiveTabs : setActiveTab(tab)
    \/ \E value \in SearchTerms : setSearchTerm(value)
    \/ \E value \in LocationFilters : setFilterLocationId(value)
    \/ \E value \in machineNameOptions \cup { <<>> } : setFilterMachineName(value)
    \/ \E value \in StatusFilters : setFilterStatus(value)
    \/ \E v \in machineNameOptions \cup { <<>> } : SetBomFilterMachine(v)
    \/ \E value \in bomModelOptions \cup { <<>> } : setBomFilterModel(value)
    \/ \E k \in 1..Len(machines) : setExpandedAssetId(k)
    \/ \E k \in 1..Len(machines) : ManageInBomTab(k)
    \/ handleSheetUrlPaste(<<>>)
    \/ \E id \in Ids(currentViewData) : ToggleSelected(id)
    \/ handleSelectAllGlobal
    \/ handleSelectAllPage
    \/ \E confirmed \in BOOLEAN : handleBulkDelete(confirmed)

\* inputs: the sheet of the file chosen while the form is worked on
FormSheets(tab) == { << HeaderRow(tab), DataRows(tab)[1] >> }

\* the form of a breakdown, and the imports by file that complete while it is
\* open
FormImportNext ==
    \/ setActiveTab("breakdowns")
    \/ \E k \in 0..Len(breakdowns) : openBreakdownForm(k)
    \/ \E input \in FormInputs(FormPart) : SetFormField(input[1], input[2])
    \/ CloseForm
    \/ handleFormSubmit
    \/ handleFileChange
    \/ \E k \in 1..Len(pending) : \E sheet \in FormSheets(pending[k].tab) :
           \E rnd \in RandomIds(pending[k].tab, sheet) : ImportAssets(k, sheet, rnd)

\* the sheet field and the sync button of the toolbar: the syncs of the tabs
\* with the sheets a user entered or cleared
SyncNext ==
    \/ \E tab \in ImportTabs : setActiveTab(tab)
    \/ \E val \in SheetIds : handleSheetUrlPaste(val)
    \/ handleSyncData
    \/ \E k \in 1..Len(pending) : \E fetched \in FormSheets(pending[k].tab) :
           \E rnd \in RandomIds(pending[k].tab, fetched) : SyncAssets(k, fetched, rnd)
-----------------------------------------------------------------------------
(* Specifications *)

\* one call of a function of the persistence gateway; the store answers an
\* upsert with rows or with an error, and a progress callback returns
Init == GatewayInit /\ ImportInit /\ NoCall /\ NoTab /\ NoForm
Next == GatewayNext
Spec == Init /\ [][Next]_vars

\* up to MaxPasses imports of sheets, by file and by sync
InitImport ==
    /\ GatewayInit /\ ImportInit /\ NoCall /\ NoTab
    /\ \E config \in SavedConfigs : Mounted(config)
NextImport == ImportNext
SpecImport == InitImport /\ [][NextImport]_vars

\* up to MaxEdits edits of issue records and items, between and during up to
\* MaxPasses imports of HistoryTable
InitEdits == GatewayInit /\ ImportInit /\ NoCall /\ NoTab /\ NoForm
NextEdits == EditsNext
SpecEdits == InitEdits /\ [][NextEdits]_vars

\* one call of each item resolver on a reference and a list of master items
InitResolve == GatewayInit /\ ImportInit /\ ResolveInit /\ NoTab /\ NoForm
NextResolve == ResolveNext
SpecResolve == InitResolve /\ [][NextResolve]_vars

\* one call of each header detector on a grid
InitHeader == GatewayInit /\ ImportInit /\ HeaderInit /\ NoTab /\ NoForm
NextHeader == HeaderNext
SpecHeader == InitHeader /\ [][NextHeader]_vars

\* up to MaxPasses imports of irregular sheets, by file and by sync
InitIrregular ==
    /\ GatewayInit /\ ImportInit /\ NoCall /\ NoTab
    /\ \E config \in SavedConfigs : Mounted(config)
NextIrregular == IrregularNext
SpecIrregular == InitIrregular /\ [][NextIrregular]_vars

\* one record written to a table of the store and read back
InitBoundary == GatewayInit /\ ImportInit /\ BoundaryInit /\ NoTab /\ NoForm
NextBoundary == BoundaryNext
SpecBoundary == InitBoundary /\ [][NextBoundary]_vars

\* one bulk upload to a store that may answer without rows and without error
InitSilent == GatewayInit /\ ImportInit /\ NoCall /\ NoTab /\ NoForm
NextSilent == SilentNext
SpecSilent == InitSilent /\ [][NextSilent]_vars

\* a user works on the rendered transfer tab with the buttons it offers
InitTransfer == GatewayInit /\ ImportInit /\ NoCall /\ TabInit /\ NoForm
NextTransfer == TransferNext
SpecTransfer == InitTransfer /\ [][NextTransfer]_vars

\* the handlers of the transfer tab are called on a transfer by users of any role
InitApproval == GatewayInit /\ ImportInit /\ NoCall /\ ApprovalInit /\ NoForm
NextApproval == ApprovalNext
SpecApproval == InitApproval /\ [][NextApproval]_vars

\* a user works on the tabs of AssetManagement and opens up to MaxForms forms
\* for assets, BOM records and breakdowns
InitBreakdown == GatewayInit /\ ImportInitOf(TwoBreakdowns) /\ NoCall /\ NoTab /\ FormInit
NextBreakdown == BreakdownNext
SpecBreakdown == InitBreakdown /\ [][NextBreakdown]_vars

\* a user works on the form of a breakdown while files are imported
InitFormImport == GatewayInit /\ ImportInit /\ NoCall /\ NoTab /\ FormInit
NextFormImport == FormImportNext
SpecFormImport == InitFormImport /\ [][NextFormImport]_vars

\* a user works on the tabs of AssetManagement with the filters and the
\* selection
InitFilter ==
    /\ GatewayInit /\ ImportInitWith(TwoMachines, TwoBreakdowns, TwoBoms)
    /\ NoCall /\ NoTab /\ NoForm
NextFilter == FilterNext
SpecFilter == InitFilter /\ [][NextFilter]_vars

\* a user enters and clears the sheets of the tabs and syncs them
InitSync == GatewayInit /\ ImportInit /\ NoCall /\ NoTab /\ NoForm
NextSync == SyncNext
SpecSync == InitSync /\ [][NextSync]_vars

\* one bulk upload with a progress callback that may throw
InitCallback == GatewayInit /\ ImportInit /\ NoCall /\ NoTab /\ NoForm
NextCallback == CallbackNext
SpecCallback == InitCallback /\ [][NextCallback]_vars
-----------------------------------------------------------------------------
(* Properties of the persistence gateway, read off the history in remoteLog *)

TableKnown == SupabaseTable(frontendTable) # ""
HasEntry == frontendTable \in DOMAIN tableMap

\* the positions in remoteLog of the upsert calls of batch b
Calls(b) == { j \in 1..Len(remoteLog) : remoteLog[j].batchNum = b }
ErrorCalls(b) == { j \in Calls(b) : remoteLog[j].answer \notin {"rows", "pending"} }
RowsCalls(b) == { j \in Calls(b) : remoteLog[j].answer = "rows" }
PendingCalls == { j \in 1..Len(remoteLog) : remoteLog[j].answer = "pending" }
Recorded(b) == { k \in 1..Len(failedBatches) : failedBatches[k].batchNum = b }
Chunks == { <<remoteLog[j].first, remoteLog[j].last>> : j \in 1..Len(remoteLog) }
ExpectedBatches == (dataLen + 99) \div 100
BulkDone == op = "bulk" /\ pc = "done" /\ TableKnown

RECURSIVE RowsUpTo(_)
\* the number of records of the calls 1..j that were answered with rows
RowsUpTo(j) ==
    IF j = 0 THEN 0
    ELSE RowsUpTo(j - 1)
         + (IF remoteLog[j].answer = "rows"
            THEN remoteLog[j].last - remoteLog[j].first + 1 ELSE 0)

\* C5: the records are split into ceil(n/100) batches of at most 100 consecutive
\* records, each record in exactly one batch; at most one upsert is in flight, and
\* a batch is first submitted only after every earlier batch has succeeded or has
\* failed three times.
C5_BatchesSequential ==
    op = "bulk" =>
        /\ Cardinality(PendingCalls) <= 1
        /\ \A j \in 1..Len(remoteLog) :
              LET c == remoteLog[j] IN
              /\ c.first = (c.batchNum - 1) * 100 + 1
              /\ c.last = Min(c.batchNum * 100, dataLen)
              /\ c.last - c.first + 1 \in 1..100
              /\ \A k \in 1..(c.batchNum - 1) :
                    \/ \E j2 \in RowsCalls(k) : j2 < j
                    \/ Cardinality({ j2 \in ErrorCalls(k) : j2 < j }) = 3
        /\ BulkDone =>
              /\ { remoteLog[j].batchNum : j \in 1..Len(remoteLog) } = 1..ExpectedBatches
              /\ Cardinality(Chunks) = ExpectedBatches
              /\ \A r \in 1..dataLen :
                    Cardinality({ ch \in Chunks : ch[1] <= r /\ r <= ch[2] }) = 1

\* 250 records were sent as the batches 1-100, 101-200, 201-250
C5_Witness ==
    /\ BulkDone
    /\ dataLen = 250
    /\ Chunks = { <<1, 100>>, <<101, 200>>, <<201, 250>> }

\* C6: a batch is submitted at most 3 times; it is recorded as failed, once, exactly
\* when its third attempt has failed, with the message of that last error, and it
\* is not submitted again; a batch that succeeded is not submitted again and is not
\* recorded as failed.
C6_BoundedRetry ==
    op = "bulk" =>
        \A b \in 1..ExpectedBatches :
            /\ Cardinality(Calls(b)) <= 3
            /\ Cardinality(Recorded(b)) <= 1
            /\ Recorded(b) # {} <=> Cardinality(ErrorCalls(b)) = 3
            /\ \A k \in Recorded(b) :
                  /\ Calls(b) = ErrorCalls(b)
                  /\ \E j \in Calls(b) :
                        /\ \A j2 \in Calls(b) : j2 <= j
                        /\ failedBatches[k].error = remoteLog[j].answer
            /\ \A j \in RowsCalls(b) :
                  /\ \A j2 \in Calls(b) : j2 <= j
                  /\ Recorded(b) = {}

\* one batch failed with a last message that differs from its first, and another
\* batch succeeded on its third attempt
C6_Witness ==
    /\ BulkDone
    /\ \E b1, b2 \in 1..ExpectedBatches :
          /\ \E k \in Recorded(b1) : failedBatches[k].error = "duplicate key"
          /\ \E j \in ErrorCalls(b1) : remoteLog[j].answer = "timeout"
          /\ RowsCalls(b2) # {}
          /\ Cardinality(Calls(b2)) = 3

\* C7: when a batch has exhausted its retries the later batches are still submitted,
\* and the returned count is the number of records of the batches that succeeded,
\* never more than the number of input records.
C7_PartialFailureIsolation ==
    /\ op = "bulk" => successCount <= dataLen
    /\ (BulkDone /\ dataLen > 0) =>
          /\ \A b \in 1..ExpectedBatches : Calls(b) # {}
          /\ result.count = RowsUpTo(Len(remoteLog))
          /\ result.count <= dataLen

\* 250 records, batch 2 failed on all attempts: the count is 150
C7_Witness ==
    /\ BulkDone
    /\ dataLen = 250
    /\ Len(failedBatches) = 1
    /\ failedBatches[1].batchNum = 2
    /\ RowsCalls(1) # {} /\ RowsCalls(3) # {}
    /\ result.count = 150

\* some call of a batch was answered with rows
SomeBatchSucceeded == \E b \in 1..ExpectedBatches : RowsCalls(b) # {}

\* C8: the status bulkUpsertSupabaseRecords returns is success exactly when no
\* batch failed, partial only when at least one batch failed and at least one
\* succeeded, and error only when the operation could not start, never once a
\* batch has been submitted.  The clauses are read in the way that asks least of
\* the code: an operation that ends before its first upsert could not start, and
\* only of an operation that submitted a batch is success required when none
\* failed.
C8_OutcomeStatus ==
    (op = "bulk" /\ pc = "done") =>
        /\ result.status \in {"success", "partial", "error"}
        /\ result.status = "success" => failedBatches = <<>>
        /\ (failedBatches = <<>> /\ remoteLog # <<>>) => result.status = "success"
        /\ result.status = "partial" => (failedBatches # <<>> /\ SomeBatchSucceeded)
        /\ result.status = "error" => remoteLog = <<>>

\* C9: when at least one batch exhausted its retries, the returned value holds the
\* list of the failed batches, each with its batch number and error message.
C9_FailedBatchesReturned ==
    (BulkDone /\ failedBatches # <<>>) =>
        /\ "failedBatches" \in DOMAIN result
        /\ result.failedBatches = failedBatches

\* C10: for a table name without an entry in tableMap each of the three functions
\* returns the error "Unknown table", and no call to the remote store and no call
\* of the progress callback has been made.
C10_UnknownTableFailsFast ==
    (op \in {"bulk", "upsert", "delete"} /\ ~HasEntry) =>
        /\ pc = "done"
        /\ result = [ status |-> "error", message |-> "Unknown table" ]
        /\ remoteLog = <<>>
        /\ progressLog = <<>>

\* an answer to an upsert is handled
AnswerHandled == pc = "awaitUpsert" /\ pc' # "awaitUpsert"

\* C25: every answer of the store to an upsert marks the batch successful or
\* consumes one of the 3 attempts, and no batch is submitted more than 3 times
C25_EveryAnswerCounts ==
    /\ [](op = "bulk" =>
            \A b \in 1..ExpectedBatches : Cardinality(Calls(b)) <= MAX_RETRIES)
    /\ [][AnswerHandled => (batchSuccess' \/ retryCount' = retryCount + 1)]_vars
-----------------------------------------------------------------------------
(* Claims about the import handlers *)

\* the last pass ran to its call of onBulkImport
PassDone == lastImport.tab # "none" /\ lastImport.called

\* a step that reconciles again the rows of the pass before it, against the
\* collection that pass left
SamePassAgain ==
    /\ PassDone
    /\ passes' = passes + 1
    /\ lastImport'.tab = lastImport.tab
    /\ lastImport'.rows = lastImport.rows
    /\ lastImport'.existing = lastImport.after
    /\ lastImport'.called

\* C1: reconciling the identical rows again, after the first pass's toAdd was
\* merged into the collection, yields an empty toAdd, and every entity the first
\* pass added is in the second pass's toUpdate under the id the first pass gave it
C1_ReimportIdempotent ==
    [][ SamePassAgain =>
            /\ lastImport'.toAdd = <<>>
            /\ Ids(lastImport.toAdd) \subseteq Ids(lastImport'.toUpdate) ]_vars

\* two bom records of the same (machineCategory, modelNo, itemId) triple
SameTriple(a, b) ==
    /\ Get(a, "machineCategory") = Get(b, "machineCategory")
    /\ Get(a, "modelNo") = Get(b, "modelNo")
    /\ Get(a, "itemId") = Get(b, "itemId")

\* the entities a pass handed to onBulkImport
Emitted(pass) ==
    { pass.toAdd[k] : k \in 1..Len(pass.toAdd) }
    \cup { pass.toUpdate[k] : k \in 1..Len(pass.toUpdate) }

\* a bom pass of one data row that follows a bom pass of one data row and
\* reconciles against the collection that pass left
TwoBomPasses ==
    /\ PassDone
    /\ lastImport.tab = "bom"
    /\ passes' = passes + 1
    /\ lastImport'.tab = "bom"
    /\ lastImport'.existing = lastImport.after
    /\ lastImport'.called
    /\ Len(lastImport.rows) = 2
    /\ Len(lastImport'.rows) = 2

\* C2: when two bom passes carry the same (machineCategory, modelNo, itemId)
\* triple, the collection after the second pass holds exactly one record of that
\* triple, whatever explicit id the second row carries
C2_BomNaturalKeyDedup ==
    [][ TwoBomPasses =>
            \A x \in Emitted(lastImport) : \A y \in Emitted(lastImport') :
                SameTriple(x, y) =>
                    Cardinality({ k \in 1..Len(bomRecords') :
                                    SameTriple(bomRecords'[k], x) }) = 1 ]_vars

\* C3: after a pass every entity of toUpdate has the id of an entity of the
\* target collection the pass started from, every entity of toAdd has the id of
\* none, and no id is in both lists
C3_ChangeSetContract ==
    PassDone =>
        /\ Ids(lastImport.toUpdate) \subseteq Ids(lastImport.existing)
        /\ Ids(lastImport.toAdd) \cap Ids(lastImport.existing) = {}
        /\ Ids(lastImport.toAdd) \cap Ids(lastImport.toUpdate) = {}

\* a pass that both added and updated
C3_Witness ==
    /\ PassDone
    /\ lastImport.toAdd # <<>>
    /\ lastImport.toUpdate # <<>>

\* C4: the ids of the entities one pass puts in toAdd are pairwise distinct, also
\* when two rows carry the same explicit id that the collection does not hold
C4_ToAddIdsDistinct ==
    (PassDone /\ NeedsId(lastImport.tab, lastImport.rows) = {}) =>
        \A a, b \in 1..Len(lastImport.toAdd) :
            lastImport.toAdd[a].id = lastImport.toAdd[b].id => a = b
-----------------------------------------------------------------------------
(* Claims about the resolvers and the header detectors *)

\* a resolver has returned
Resolved == returned.fn \in {"AssetManagement", "HistoryTable"}

\* C11: called with the id of an item of the list, whose ids are pairwise
\* distinct, each item resolver returns exactly that id
C11_ResolveByIdReflexive ==
    (Resolved /\ \E k \in 1..Len(args.items) : args.items[k].id = args.val) =>
        returned.value = args.val

\* the reference as the strategies compare it
Reference == Without(ToLowerCase(Trim(JsString(args.val))), QuoteChars)

\* the item has the field and its value is the reference, up to letter case
FieldIs(e, k) == Truthy(Get(e, k)) /\ ToLowerCase(Get(e, k)) = Reference

\* the digits of the field are the reference
DigitsAre(e, k) == Truthy(Get(e, k)) /\ DigitsOnly(Get(e, k)) = Reference

\* the positions of the items that strategy n matches: 1 id, 2 partNumber,
\* 3 secondId or thirdId, 4 name or fullName, 5 digits of a numeric reference
Strategy(n) ==
    { k \in 1..Len(args.items) :
        LET e == args.items[k] IN
        IF n = 1 THEN FieldIs(e, "id")
        ELSE IF n = 2 THEN FieldIs(e, "partNumber")
        ELSE IF n = 3 THEN FieldIs(e, "secondId") \/ FieldIs(e, "thirdId")
        ELSE IF n = 4 THEN FieldIs(e, "name") \/ FieldIs(e, "fullName")
        ELSE AllDigits(Reference) /\ (DigitsAre(e, "id") \/ DigitsAre(e, "partNumber")) }

\* the strategies that match an item
Matching == { n \in 1..5 : Strategy(n) # {} }

\* C12: AssetManagement's resolveItemId returns the id of an item matched by the
\* earliest strategy that matches any item of the list, wherever the items stand
\* in the list, and null exactly when no strategy matches
C12_FirstStrategyWins ==
    returned.fn = "AssetManagement" =>
        IF Matching = {} THEN returned.value = Null
        ELSE LET first == CHOOSE n \in Matching : \A m \in Matching : n <= m IN
             returned.value \in { args.items[k].id : k \in Strategy(first) }

\* the reference is the part number of the first item and the id of the second,
\* and the id of the second is returned
C12_Witness ==
    /\ returned.fn = "AssetManagement"
    /\ args.val = <<"P","N","-","5","5">>
    /\ Get(args.items[1], "partNumber") = <<"P","N","-","5","5">>
    /\ args.items[2].id = <<"P","N","-","5","5">>
    /\ returned.value = <<"P","N","-","5","5">>

\* the keywords of a header row
HeaderKeywords ==
    { <<"i","d">>, <<"d","a","t","e">>, <<"q","t","y">>, <<"i","t","e","m">>, <<"m","a","c","h","i","n","e">>, <<"u","n","i","t">>, <<"s","t","a","t","u","s">>, <<"n","a","m","e">>,
      <<"p","a","r","t">>, <<"s","e","r","i","a","l">>, <<"b","r","a","n","d">>, <<"m","o","d","e","l">> }

\* row r (0-based) of the grid is among the first 10 and has two keyword cells
Qualifies(r) ==
    /\ r < Min(Len(args.rows), 10)
    /\ KeywordHits(args.rows[r + 1], HeaderKeywords) >= 2

\* the index both detectors are to return
HeaderIndex ==
    IF \E r \in 0..9 : Qualifies(r)
    THEN CHOOSE r \in 0..9 : Qualifies(r) /\ \A q \in 0..(r - 1) : ~Qualifies(q)
    ELSE 0

\* C19: both header detectors return the smallest index among the first 10 rows
\* of a row with at least 2 cells containing a keyword of the list, 0 when there is
\* none, and so the same index
C19_HeaderDetection ==
    (Has(returned, "asset") /\ Has(returned, "history")) =>
        /\ returned.asset = HeaderIndex
        /\ returned.history = HeaderIndex
-----------------------------------------------------------------------------
(* Claims about references, merges and irregular cells in the imports *)

\* an import ran in the last step
PassRan == lastImport.tab # "none"

\* the cell of a row under the first header whose cleaned lower-case name is one
\* of names; Undefined when no header is or the row ends before it
CellUnder(row, headers, names) ==
    LET hits == { k \in 1..Len(headers) : CleanHeader(ToLowerCase(headers[k])) \in names }
    IN  IF hits = {} THEN Undefined
        ELSE Cell(row, CHOOSE k \in hits : \A w \in hits : k <= w)

\* the data rows of the last pass, below the header row the sheet starts with
DataRowsOf(pass) == { pass.rows[k] : k \in 2..Len(pass.rows) }

ItemCodeHeaders == { <<"i","t","e","m","i","d">>, <<"i","t","e","m","n","u","m","b","e","r">>, <<"i","t","e","m","c","o","d","e">>, <<"p","a","r","t","n","u","m","b","e","r">> }
QtyHeaders == { <<"q","t","y">>, <<"q","u","a","n","t","i","t","y">>, <<"c","o","u","n","t">> }
LocationHeaders == { <<"l","o","c","a","t","i","o","n">>, <<"l","o","c","a","t","i","o","n","i","d">>, <<"w","a","r","e","h","o","u","s","e">> }
MachineHeaders == { <<"m","a","c","h","i","n","e">>, <<"m","a","c","h","i","n","e","n","a","m","e">>, <<"e","q","u","i","p","m","e","n","t">> }
RequestIdHeaders == { <<"i","d">>, <<"r","e","q","u","e","s","t","i","d">> }
DateHeaders == { <<"d","a","t","e">>, <<"t","i","m","e","s","t","a","m","p">> }

\* the row of the scenario: item code PN-55, quantity 12, location Warehouse A
PartNumberRow(row, headers) ==
    /\ CellUnder(row, headers, ItemCodeHeaders) = <<"P","N","-","5","5">>
    /\ CellUnder(row, headers, QtyHeaders) = <<"1","2">>
    /\ CellUnder(row, headers, LocationHeaders) = <<"W","a","r","e","h","o","u","s","e"," ","A">>

\* C13: a requests import of the row {Item Code PN-55, Qty 12, Location
\* Warehouse A}, with the item IT-9 of partNumber PN-55 and the location L-1
\* named Warehouse A in the master data, puts a record of itemId IT-9,
\* quantity 12 and locationId L-1 in toAdd
C13_PartNumberResolves ==
    ( /\ PassRan
      /\ lastImport.tab = "requests"
      /\ \E row \in DataRowsOf(lastImport) : PartNumberRow(row, lastImport.rows[1])
      /\ \E k \in 1..Len(lastImport.db.items) :
             /\ lastImport.db.items[k].id = <<"I","T","-","9">>
             /\ Get(lastImport.db.items[k], "partNumber") = <<"P","N","-","5","5">>
      /\ \E k \in 1..Len(lastImport.db.locations) :
             /\ lastImport.db.locations[k].id = <<"L","-","1">>
             /\ lastImport.db.locations[k].name = <<"W","a","r","e","h","o","u","s","e"," ","A">> ) =>
        /\ lastImport.called
        /\ \E k \in 1..Len(lastImport.toAdd) :
               /\ lastImport.toAdd[k].itemId = <<"I","T","-","9">>
               /\ lastImport.toAdd[k].quantity = 12
               /\ lastImport.toAdd[k].locationId = <<"L","-","1">>

\* a reference that is the id or, whatever the case, the category of a machine
MatchesMachine(ref, list) ==
    \E k \in 1..Len(list) :
        \/ list[k].id = Trim(ref)
        \/ ToLowerCase(OrElse(Get(list[k], "category"), <<>>)) = ToLowerCase(Trim(ref))

\* a reference that is the id or, whatever the case, the name or the full name
\* of an item
MatchesItem(ref, list) ==
    \E k \in 1..Len(list) :
        \/ list[k].id = Trim(ref)
        \/ ToLowerCase(OrElse(Get(list[k], "name"), <<>>)) = ToLowerCase(Trim(ref))
        \/ ToLowerCase(OrElse(Get(list[k], "fullName"), <<>>)) = ToLowerCase(Trim(ref))

\* a requests pass of one data row that carries an id, a quantity that is a
\* number other than 0 and no date
OneRequestRow ==
    /\ PassRan
    /\ lastImport.tab = "requests"
    /\ Len(lastImport.rows) = 2
    /\ Truthy(CellUnder(lastImport.rows[2], lastImport.rows[1], RequestIdHeaders))
    /\ TruthyNum(Number(CellUnder(lastImport.rows[2], lastImport.rows[1], QtyHeaders)))
    /\ CellUnder(lastImport.rows[2], lastImport.rows[1], DateHeaders) = Undefined

\* C14: in a requests import a row whose machine reference matches no machine
\* is emitted, in toAdd or in toUpdate, with machineId "Unknown"; a row whose
\* item reference matches no item is emitted in neither list; no exception is
\* raised in either case
C14_UnresolvedReferencePolicy ==
    OneRequestRow =>
        LET row == lastImport.rows[2]
            headers == lastImport.rows[1]
            item == CellUnder(row, headers, ItemCodeHeaders)
            machine == CellUnder(row, headers, MachineHeaders)
            id == CellUnder(row, headers, RequestIdHeaders)
        IN  /\ ~lastImport.threw
            /\ (Truthy(item) /\ ~MatchesItem(item, lastImport.db.items)) =>
                   (lastImport.toAdd = <<>> /\ lastImport.toUpdate = <<>>)
            /\ (Truthy(item) /\ MatchesItem(item, lastImport.db.items)
                  /\ Truthy(machine)
                  /\ ~MatchesMachine(machine, lastImport.db.machines)) =>
                   \E e \in Emitted(lastImport) :
                       e.id = id /\ e.machineId = <<"U","n","k","n","o","w","n">>

\* the fields the columns of a header row supply to the entities of a tab: for
\* the history tabs the fields the header names stand for, for the asset tabs
\* the fields the row mapping sets from the cells of the row
Supplied(tab, headers, row, db) ==
    IF tab \in HistoryTabs
    THEN { FieldOf(IF tab = "requests" THEN RequestFields ELSE StockFields,
                   CleanHeader(ToLowerCase(headers[k]))) : k \in 1..Len(headers) }
    ELSE DOMAIN MapAssetRow([ obj |-> EmptyObject, failed |-> <<>> ], tab,
                            [k \in 1..Len(headers) |-> Trim(ToLowerCase(headers[k]))],
                            row, 1, db).obj

\* the data rows of a pass that carry the id in a cell
RowsOfId(pass, id) ==
    { row \in DataRowsOf(pass) : \E k \in 1..Len(row) : Trim(row[k]) = id }

\* C15: an entity a pass puts in toUpdate keeps, for every field of the existing
\* entity of its id that no column of the row supplies, the value the existing
\* entity has
C15_MergeKeepsUnsuppliedFields ==
    PassDone =>
        \A u \in 1..Len(lastImport.toUpdate) : \A e \in 1..Len(lastImport.existing) :
            lastImport.existing[e].id = lastImport.toUpdate[u].id =>
                \A row \in RowsOfId(lastImport, lastImport.toUpdate[u].id) :
                    \A f \in DOMAIN lastImport.existing[e] :
                        f \notin Supplied(lastImport.tab, lastImport.rows[1], row,
                                          lastImport.db) =>
                            Get(lastImport.toUpdate[u], f) = lastImport.existing[e][f]

\* the field of the quantity in the entities of a tab
QuantityField(tab) == IF tab = "stock" THEN "stockQuantity" ELSE "quantity"

\* a pass of one data row whose item is in the master data (for the stock tab:
\* whose id cell is not empty) and whose quantity cell is no number
NonNumericQuantityRow ==
    /\ PassRan
    /\ lastImport.tab \in {"bom", "requests", "stock"}
    /\ Len(lastImport.rows) = 2
    /\ Len(lastImport.rows[2]) = Len(lastImport.rows[1])
    /\ LET item == CellUnder(lastImport.rows[2], lastImport.rows[1], ItemCodeHeaders)
       IN  /\ Truthy(item)
           /\ lastImport.tab # "stock" => MatchesItem(item, lastImport.db.items)
    /\ Number(CellUnder(lastImport.rows[2], lastImport.rows[1], QtyHeaders)) = NaN
    /\ lastImport.tab = "requests" =>
           MatchesMachine(CellUnder(lastImport.rows[2], lastImport.rows[1],
                                    MachineHeaders), lastImport.db.machines)

\* C16: a row with a resolvable item and a quantity cell that is no number is
\* emitted, in toAdd or in toUpdate, with the quantity 0
C16_NonNumericQuantityIsZero ==
    NonNumericQuantityRow =>
        /\ lastImport.called
        /\ Emitted(lastImport) # {}
        /\ \A e \in Emitted(lastImport) : Get(e, QuantityField(lastImport.tab)) = 0

\* the rows of a requests pass whose date cell is no date
UnparsableDateRows(pass) ==
    { row \in DataRowsOf(pass) :
        LET date == CellUnder(row, pass.rows[1], DateHeaders)
        IN  date # Undefined /\ ToISOString(date) = Invalid }

\* C17: a requests import with a row whose date cell cannot be parsed calls
\* onBulkImport, emits that row with the current time as its timestamp and
\* emits the other rows of the file
C17_SoftDateFailure ==
    ( /\ PassRan
      /\ lastImport.tab = "requests"
      /\ UnparsableDateRows(lastImport) # {} ) =>
        /\ ~lastImport.threw
        /\ lastImport.called
        /\ \A row \in DataRowsOf(lastImport) :
               \E e \in Emitted(lastImport) :
                   /\ e.id = CellUnder(row, lastImport.rows[1], RequestIdHeaders)
                   /\ row \in UnparsableDateRows(lastImport) =>
                          e.timestamp = Clock[passes]

\* a pass with a data row of fewer cells than the header row
ShortRowPass ==
    /\ PassRan
    /\ \E row \in DataRowsOf(lastImport) : Len(row) < Len(lastImport.rows[1])

\* C18: when a data row has fewer cells than the header row, no field of an
\* emitted entity is the text "undefined", the id least of all
C18_MissingCellsAreAbsent ==
    ShortRowPass =>
        /\ ~lastImport.threw
        /\ \A e \in Emitted(lastImport) : \A f \in DOMAIN e : e[f] # <<"u","n","d","e","f","i","n","e","d">>

\* a pass over the empty grid or over a grid of a header row only
NoDataPass == PassRan /\ lastImport.rows # Rejected /\ Len(lastImport.rows) <= 1

\* C20: an import of the empty grid, or of a grid with no row below the header
\* row, does not call onBulkImport, raises no exception and tells the operator
\* that no data was found
C20_EmptyInputAborts ==
    NoDataPass =>
        /\ ~lastImport.called
        /\ ~lastImport.threw
        /\ \/ lastImport.alert \in { "No valid data rows found.", "No valid rows found." }
           \/ lastImport.syncMsg = "No data found or empty sheet."

\* the item references of a bom row: the trimmed cells under the headers of the
\* item column, in the order of the columns
ItemReferences(row, headers) ==
    LET cols == { k \in 1..Len(headers) : CleanHeader(ToLowerCase(headers[k])) \in BomItemHeaders }
    IN  { Trim(JsString(Cell(row, k))) : k \in cols }

\* the last item reference of a bom row, the one the row is left with
LastItemReference(row, headers) ==
    LET cols == { k \in 1..Len(headers) : CleanHeader(ToLowerCase(headers[k])) \in BomItemHeaders }
    IN  IF cols = {} THEN <<>>
        ELSE Trim(JsString(Cell(row, CHOOSE k \in cols : \A w \in cols : w <= k)))

\* the bom rows of a pass whose item reference is not empty and resolves to no
\* item of the master data
UnresolvedBomRows(pass) ==
    { k \in 2..Len(pass.rows) :
        LET ref == LastItemReference(pass.rows[k], pass.rows[1])
        IN  Truthy(ref) /\ ~Truthy(resolveItemId(ref, pass.db.items)) }

\* C21: after a bom pass every entity of toAdd and of toUpdate has the id of an
\* item of the master data as itemId; the rows whose item reference resolved to
\* no item are in neither list, their reference is in failedItemMatches, and no
\* string is in failedItemMatches twice
C21_BomReferentialRequirement ==
    (PassDone /\ lastImport.tab = "bom") =>
        /\ \A e \in Emitted(lastImport) : Get(e, "itemId") \in Ids(lastImport.db.items)
        /\ Len(lastImport.toAdd) + Len(lastImport.toUpdate)
               <= Len(lastImport.rows) - 1 - Cardinality(UnresolvedBomRows(lastImport))
        /\ \A k \in UnresolvedBomRows(lastImport) :
               \E f \in 1..Len(lastImport.failedItemMatches) :
                   lastImport.failedItemMatches[f]
                       = LastItemReference(lastImport.rows[k], lastImport.rows[1])
        /\ \A a, b \in 1..Len(lastImport.failedItemMatches) :
               lastImport.failedItemMatches[a] = lastImport.failedItemMatches[b] => a = b

\* a bom pass in which two rows carry the same reference to no item, next to a
\* row that is emitted
C21_Witness ==
    /\ PassDone
    /\ lastImport.tab = "bom"
    /\ Cardinality(UnresolvedBomRows(lastImport)) = 2
    /\ Len(lastImport.failedItemMatches) = 1
    /\ Len(lastImport.toAdd) = 1

\* the outcome of the last pass had the id syntheses yielded rnd
OutcomeWith(pass, rnd) ==
    IF pass.tab \in AssetTabs
    THEN processImport(pass.rows, pass.tab, rnd, pass.db)
    ELSE importHistoryFile(pass.rows, pass.tab, rnd, Clock[passes], pass.db)

\* the partition of the rows of a pass, by size
Partition(out) == << Len(out.toAdd), Len(out.toUpdate), out.skippedRows >>

\* C22: the partition of the rows of a pass into added, updated and skipped is
\* the same for every value the synthesized ids take
C22_ClassificationIgnoresSuffix ==
    PassDone =>
        \A rnd \in IrregularIds(lastImport.tab, lastImport.rows) :
            Partition(OutcomeWith(lastImport, rnd)) = Partition(lastImport)

\* the entities of toAdd that the bom rows without id of a pass led to, by
\* their natural key
SameTripleAdded(pass) ==
    { pair \in (1..Len(pass.toAdd)) \X (1..Len(pass.toAdd)) :
        SameTriple(pass.toAdd[pair[1]], pass.toAdd[pair[2]]) }

\* C23: a bom pass whose rows carry no id does not put two entities of the same
\* (machineCategory, modelNo, itemId) triple and of different ids in toAdd
C23_BomIdFromNaturalKey ==
    ( /\ PassDone
      /\ lastImport.tab = "bom"
      /\ \A k \in 2..Len(lastImport.rows) : ~Truthy(lastImport.rows[k][1]) ) =>
        \A pair \in SameTripleAdded(lastImport) :
            lastImport.toAdd[pair[1]].id = lastImport.toAdd[pair[2]].id

\* C26: after a pass of processImport the entities of toAdd, those of toUpdate
\* and the skipped rows are together as many as the data rows below the header
\* row; a bom row with an id whose item reference resolves to nothing is one of
\* the skipped rows
C26_RowAccounting ==
    (PassDone /\ lastImport.tab \in AssetTabs) =>
        Len(lastImport.toAdd) + Len(lastImport.toUpdate) + lastImport.skippedRows
            = Len(lastImport.rows) - 1
-----------------------------------------------------------------------------
(* Claims about the translation of records at the boundary *)

\* the record was written and read back
RoundTripDone == returned.fn = "processRecordFromSupabase"

\* the list fields of the record that hold an array
ListValued(record) == { key \in ListFields \cap DOMAIN record : IsArray(record[key]) }

\* C24: a record that was written and read back has the keys it had, and each
\* list field that held an array of strings is stored as the strings joined by
\* commas and read back as the same array
C24_BoundaryRoundTrip ==
    RoundTripDone =>
        /\ DOMAIN returned.record = DOMAIN args.record
        /\ \A key \in ListValued(args.record) :
               /\ returned.stored[toSnakeCase(key)] = Join(Elements(args.record[key]))
               /\ IsArray(returned.record[key])
               /\ Elements(returned.record[key]) = Elements(args.record[key])

\* the record was translated for its table
Translated == returned.fn \in {"processRecordToSupabase", "processRecordFromSupabase"}

\* C27: a record written to the machines table whose status is missing, null,
\* undefined or the empty string is stored with the status "Working"; a record
\* written to the items table whose category is empty is stored with the
\* category "General"
C27_MandatoryDefaults ==
    Translated =>
        /\ (args.tableName = "machines" /\ ~Truthy(Get(args.record, <<"s","t","a","t","u","s">>))) =>
               Get(returned.stored, <<"s","t","a","t","u","s">>) = <<"W","o","r","k","i","n","g">>
        /\ (args.tableName = "items" /\ Has(args.record, <<"c","a","t","e","g","o","r","y">>)
              /\ ~Truthy(args.record[<<"c","a","t","e","g","o","r","y">>])) =>
               Get(returned.stored, <<"c","a","t","e","g","o","r","y">>) = <<"G","e","n","e","r","a","l">>
-----------------------------------------------------------------------------
(* Claims about the asset transfer tab *)

\* the steps of the status order, and the one step back
StatusSteps ==
    { << <<"D","r","a","f","t">>, <<"S","u","b","m","i","t","t","e","d">> >>, << <<"S","u","b","m","i","t","t","e","d">>, <<"A","p","p","r","o","v","e","d">> >>,
      << <<"A","p","p","r","o","v","e","d">>, <<"E","x","e","c","u","t","e","d">> >>, << <<"E","x","e","c","u","t","e","d">>, <<"C","l","o","s","e","d">> >>,
      << <<"S","u","b","m","i","t","t","e","d">>, <<"D","r","a","f","t">> >> }

\* C28: under the actions the transfer tab offers (Submit, Approve, Reject,
\* Execute, Close) the status of a transfer stays or moves one step along
\* Draft, Submitted, Approved, Executed, Closed, or back from Submitted to
\* Draft by a rejection; so it is Executed only from Approved; and no action
\* changes a transfer that is Closed.
C28_StatusOrder ==
    [][\A k \in 1..Len(transfers) :
         /\ \/ transfers'[k].status = transfers[k].status
            \/ << transfers[k].status, transfers'[k].status >> \in StatusSteps
         /\ transfers[k].status = <<"C","l","o","s","e","d">> => transfers'[k] = transfers[k]]_vars

\* the roles the claim lets approve and reject
ApproverRoles == { <<"a","d","m","i","n">>, <<"m","a","i","n","t","e","n","a","n","c","e","_","m","a","n","a","g","e","r">> }

\* the transfers whose status the step turns into status
Turned(status) ==
    { k \in 1..Len(transfers) :
        transfers[k].status # status /\ transfers'[k].status = status }

\* an approval was requested by a user who is no approver
ApprovalRefused ==
    /\ lastAction.fn = "handleStatusChange"
    /\ lastAction.newStatus = <<"A","p","p","r","o","v","e","d">>
    /\ currentUser.role \notin ApproverRoles

\* C29: a transfer becomes Approved, or goes back to Draft, only in a step of
\* an admin or a maintenance manager; a transfer that becomes Approved records
\* the username of that user as approvedBy; a transfer goes back to Draft only
\* with a reason that is not empty; and when a user of another role requests
\* an approval, onUpdateTransfer is not called and the transfers are unchanged.
C29_ApprovalIsRoleGated ==
    [][/\ \A k \in Turned(<<"A","p","p","r","o","v","e","d">>) :
            /\ currentUser.role \in ApproverRoles
            /\ transfers'[k].approvedBy = currentUser.username
       /\ \A k \in Turned(<<"D","r","a","f","t">>) :
            /\ currentUser.role \in ApproverRoles
            /\ Has(transfers'[k], "rejectionReason")
            /\ transfers'[k].rejectionReason # <<>>
            /\ transfers'[k].rejectionReason = rejectionReason
       /\ ApprovalRefused' => (lastAction'.updated = FALSE /\ transfers' = transfers)]_vars

\* a maintenance engineer requested the approval of a transfer and was refused;
\* the transfer had been rejected with a reason and then approved by a manager
C29_Witness ==
    /\ ApprovalRefused
    /\ lastAction.updated = FALSE
    /\ \E k \in 1..Len(transfers) :
         /\ transfers[k].status = <<"A","p","p","r","o","v","e","d">>
         /\ transfers[k].approvedBy = <<"m","o","n","a">>
         /\ Has(transfers[k], "rejectionReason")

-----------------------------------------------------------------------------
(* Claims about the breakdown form *)

\* the breakdowns of a list that are open on the machine of that id
OpenBreakdownsOf(list, id) ==
    { k \in 1..Len(list) :
        Get(list[k], "machineId") = id /\ Get(list[k], "status") = <<"O","p","e","n">> }

\* every machine of a list that has an open breakdown is "Not Working"
MachinesDown(ms, bds) ==
    \A m \in 1..Len(ms) :
        OpenBreakdownsOf(bds, ms[m].id) # {} => Get(ms[m], "status") = <<"N","o","t"," ","W","o","r","k","i","n","g">>

\* the step is a submission of the breakdown form that added or updated a
\* breakdown
BreakdownSubmitted ==
    /\ showForm /\ ~showForm'
    /\ \E k \in 1..Len(calls') : calls'[k] \in {"onAddBreakdown", "onUpdateBreakdown"}

\* C30: after any sequence of submissions of the breakdown form, a machine
\* with at least one open breakdown has the status "Not Working"; closing one
\* breakdown does not make a machine "Working" while another one is open on it.
\* A submission of the form keeps what holds before it.
C30_OpenBreakdownKeepsMachineDown ==
    [][(BreakdownSubmitted /\ MachinesDown(machines, breakdowns))
           => MachinesDown(machines', breakdowns')]_vars

====
